---- MODULE Spec2Model ----
(***************************************************************************)
(* A model of the cpu-power telemetry engine: the power arithmetic of      *)
(* util/mod.rs, topology discovery (mapper/), the averaging windows of     *)
(* monitor.rs and the sampler/renderer pipeline of lib.rs.                 *)
(*                                                                         *)
(* u64 values are little-endian byte sequences of length U64Len, so that   *)
(* 32-bit counters and 64-bit products keep their width; every operation   *)
(* on them wraps at the length of its first operand, as u64 arithmetic     *)
(* does in a release build.                                                *)
(***************************************************************************)
EXTENDS Integers, Sequences, FiniteSets, TLC

VARIABLES
    in_start,       \* calculate_power_uw: energy_start argument
    in_end,         \* calculate_power_uw: energy_end argument
    in_interval,    \* calculate_power_uw: time_interval_ms argument
    in_unit,        \* calculate_power_uw: energy_unit argument
    out_power,      \* calculate_power_uw: the returned value, NoValue before the call
    hw,             \* what the OS and the hardware expose to discovery (/proc, /sys, MSRs)
    topology,       \* the CpuTopology built by CpuTopology::new, later PowerMonitor.topology
    display_topology,   \* the clone of the topology moved into the display thread
    topo_status,    \* "start", then "built", "error" (Err returned) or "panic"
    power_readings,         \* PowerMonitor.power_readings
    core_power_readings,    \* PowerMonitor.core_power_readings
    reading,        \* the PowerReading last built by calculate_averages
    wpc,            \* the window driver's next call: "update" or "average"
    calls,          \* update_readings calls made so far
    pushed,         \* every value pushed so far: [package, cores], as naturals
    mpc,            \* the main (sampling) thread's position in lib.rs monitor_cpu_power
    monitoring_result,  \* "pending", then "ok" or "err"
    loop_energy_unit,   \* the sampling loop's energy_unit
    initial_snapshot,   \* the tick's initial_snapshot
    final_snapshot,     \* the tick's final_snapshot
    pkg_power,      \* the tick's pkg_power
    loop_core_powers,   \* the tick's core_powers map
    sent,           \* readings sent on the channel so far
    m_sleep,        \* milliseconds left of the main thread's current sleep
    intel_mapper,   \* PowerMonitor::intel_mapper
    last_read,      \* what the main thread's latest read of the machine found
    chan,           \* the mpsc channel: the readings sent and not yet received
    dpc,            \* the display thread's position: "poll", "sleep", "finished"
    display_elapsed,    \* last_display_time.elapsed(), capped at the display interval
    d_sleep,        \* milliseconds left of the display thread's current sleep
    shown,          \* the reading last drawn by display_power_readings
    est_call,       \* the locals of the latest estimate_core_powers call
    observed,       \* the package powers passed to estimate_core_powers so far
    calibration,    \* what calibrate returned to PowerMonitor::new: "ok" or "failed"
    cpc,            \* the calibrating context's position in calibrate_core_type
    kpc,            \* the calibration worker's position in its closure
    running,        \* the AtomicBool shared with the worker
    start_chan,     \* the start channel: "empty", "sent" or "closed" (sender dropped)
    cal_call        \* the arguments and locals of the calibrate_core_type call

powerVars == <<in_start, in_end, in_interval, in_unit, out_power>>
topoVars == <<hw, topology, display_topology, topo_status>>
monitorVars == <<power_readings, core_power_readings, reading>>
windowVars == <<wpc, calls, pushed>>
samplerVars == <<mpc, monitoring_result, loop_energy_unit, initial_snapshot,
                 final_snapshot, pkg_power, loop_core_powers, sent, m_sleep,
                 intel_mapper, last_read>>
displayVars == <<chan, dpc, display_elapsed, d_sleep, shown>>
estVars == <<est_call, observed, calibration>>
calibVars == <<cpc, kpc, running, start_chan, cal_call>>
vars == <<powerVars, topoVars, monitorVars, windowVars, samplerVars, displayVars,
          estVars, calibVars>>

\* "no value yet" for a u64 slot: the empty byte sequence
NoValue == <<>>

-----------------------------------------------------------------------------
(* u64 arithmetic on byte sequences *)

Radix == 2^8
U64Len == 64 \div 8
WideLen == 2 * U64Len

\* the bytes i..len of a natural n below 2^31, n being what is left at byte i
RECURSIVE NatBytes(_, _, _)
NatBytes(n, i, len) ==
    IF i > len THEN <<>> ELSE <<n % Radix>> \o NatBytes(n \div Radix, i + 1, len)

FromNat(n, len) == NatBytes(n, 1, len)

ByteAt(a, i) == IF i <= Len(a) THEN a[i] ELSE 0

RECURSIVE ExtendFrom(_, _, _)
ExtendFrom(a, i, len) ==
    IF i > len THEN <<>> ELSE <<ByteAt(a, i)>> \o ExtendFrom(a, i + 1, len)

\* zero-extension (or truncation) to len bytes
Extend(a, len) == CHOOSE r \in {ExtendFrom(x, 1, len) : x \in {a}} : TRUE

U64(n) == FromNat(n, U64Len)

\* a 32-bit value from its two 16-bit halves
U32Of(hi, lo) == FromNat(lo, 2) \o FromNat(hi, 2) \o FromNat(0, U64Len - 4)

IsZero(a) == \A i \in 1..Len(a) : a[i] = 0

RECURSIVE AddFrom(_, _, _, _)
AddFrom(a, b, i, carry) ==
    IF i > Len(a) THEN <<>>
    ELSE <<(a[i] + b[i] + carry) % Radix>>
            \o AddFrom(a, b, i + 1, (a[i] + b[i] + carry) \div Radix)

\* a + b, wrapping
Add(a, b) == CHOOSE r \in {AddFrom(x, y, 1, 0) : x \in {a}, y \in {b}} : TRUE

RECURSIVE SubFrom(_, _, _, _)
SubFrom(a, b, i, borrow) ==
    IF i > Len(a) THEN <<>>
    ELSE <<(a[i] - b[i] - borrow + Radix) % Radix>>
            \o SubFrom(a, b, i + 1, IF a[i] - b[i] - borrow < 0 THEN 1 ELSE 0)

\* a - b, wrapping
Sub(a, b) == CHOOSE r \in {SubFrom(x, y, 1, 0) : x \in {a}, y \in {b}} : TRUE

RECURSIVE LtFrom(_, _, _)
LtFrom(a, b, i) ==
    IF i = 0 THEN FALSE
    ELSE IF a[i] # b[i] THEN a[i] < b[i]
    ELSE LtFrom(a, b, i - 1)

\* a < b
Lt(a, b) == \E x \in {a}, y \in {b} : LtFrom(x, y, Len(x))

RECURSIVE MulFrom(_, _, _, _)
MulFrom(a, c, i, carry) ==
    IF i > Len(a) THEN <<>>
    ELSE <<(a[i] * c + carry) % Radix>>
            \o MulFrom(a, c, i + 1, (a[i] * c + carry) \div Radix)

\* a * c for a natural c below 2^23, wrapping
MulSmall(a, c) == CHOOSE r \in {MulFrom(x, c, 1, 0) : x \in {a}} : TRUE

RECURSIVE ShrFrom(_, _, _, _)
ShrFrom(a, q, r, i) ==
    IF i > Len(a) THEN <<>>
    ELSE <<(ByteAt(a, i + q) \div 2^r) + (ByteAt(a, i + q + 1) % 2^r) * 2^(8 - r)>>
            \o ShrFrom(a, q, r, i + 1)

\* a >> k
Shr(a, k) == CHOOSE r \in {ShrFrom(x, k \div 8, k % 8, 1) : x \in {a}} : TRUE

RECURSIVE DivFrom(_, _, _, _)
DivFrom(a, d, i, rem) ==
    IF i = 0 THEN <<>>
    ELSE DivFrom(a, d, i - 1, (rem * Radix + a[i]) % d)
            \o <<(rem * Radix + a[i]) \div d>>

\* a / d (truncating) for a natural d, 0 < d < 2^23
DivSmall(a, d) == CHOOSE r \in {DivFrom(x, d, Len(x), 0) : x \in {a}} : TRUE

-----------------------------------------------------------------------------
(* f64 arithmetic: IEEE 754 binary64, round to nearest, ties to even *)

\* A finite f64 is [neg, m, e], the value (-1)^neg * m * 2^e with m a u64:
\* 2^52 <= m < 2^53, or m = 0 for zero.  Subnormals, infinities and NaN are
\* out of the range of the values the estimator computes.
MantissaBits == 53

f64_zero == [neg |-> FALSE, m |-> U64(0), e |-> 0]

\* the number of significant bits of a byte
BitLenByte(b) == IF b = 0 THEN 0 ELSE CHOOSE k \in 1..8 : 2^(k - 1) <= b /\ b < 2^k

RECURSIVE BitLenFrom(_, _)
BitLenFrom(a, i) ==
    IF i = 0 THEN 0
    ELSE IF a[i] # 0 THEN 8 * (i - 1) + BitLenByte(a[i])
    ELSE BitLenFrom(a, i - 1)

\* the number of significant bits of a
BitLen(a) == BitLenFrom(a, Len(a))

RECURSIVE ShlFrom(_, _, _)
ShlFrom(a, q, i) ==
    IF i > Len(a) THEN <<>>
    ELSE <<IF i <= q THEN 0 ELSE a[i - q]>> \o ShlFrom(a, q, i + 1)

\* a << k, wrapping
Shl(a, k) == CHOOSE r \in {ShlFrom(MulSmall(x, 2^(k % 8)), k \div 8, 1) : x \in {a}} : TRUE

RECURSIVE MulWideFrom(_, _, _)
MulWideFrom(a, b, i) ==
    IF i > Len(b) THEN FromNat(0, Len(a))
    ELSE Add(Shl(MulSmall(a, b[i]), 8 * (i - 1)), MulWideFrom(a, b, i + 1))

\* the double-width product of two u64 values
MulWide(a, b) == CHOOSE r \in {MulWideFrom(Extend(x, WideLen), y, 1) : x \in {a}, y \in {b}} : TRUE

\* what RoundF64 returns, for an M and a sticky already computed: the f64 nearest to (-1)^neg * (M + s) * 2^e, for a double-width natural M
\* and 0 <= s < 1, s > 0 iff sticky; ties go to the even mantissa
RoundValue(neg, M, e, sticky) ==
    LET len == BitLen(M)
        drop == len - MantissaBits
    IN IF len = 0 THEN f64_zero
       ELSE IF drop <= 0
       THEN [neg |-> neg, m |-> Extend(Shl(M, -drop), U64Len), e |-> e + drop]
       ELSE LET q == Shr(M, drop)
                rest == Sub(M, Shl(q, drop))
                half == Shl(FromNat(1, WideLen), drop - 1)
                up == \/ Lt(half, rest)
                      \/ rest = half /\ (sticky \/ q[1] % 2 = 1)
                r == IF up THEN Add(q, FromNat(1, WideLen)) ELSE q
            IN IF BitLen(r) > MantissaBits
               THEN [neg |-> neg, m |-> Extend(Shr(r, 1), U64Len), e |-> e + drop + 1]
               ELSE [neg |-> neg, m |-> Extend(r, U64Len), e |-> e + drop]

RoundF64(neg, M, e, sticky) ==
    CHOOSE r \in {RoundValue(neg, x, e, s) : x \in {M}, s \in {sticky}} : TRUE

\* `a as f64` for a u64 a
f64_from_u64(a) == RoundF64(FALSE, Extend(a, WideLen), 0, FALSE)

\* an f64 literal or `n as f64` for a natural n below 2^31
f64_from_nat(n) == f64_from_u64(U64(n))

MulValue(a, b) ==
    IF IsZero(a.m) \/ IsZero(b.m) THEN f64_zero
    ELSE RoundF64(a.neg # b.neg, MulWide(a.m, b.m), a.e + b.e, FALSE)

\* a * b
f64_mul(a, b) == CHOOSE r \in {MulValue(x, y) : x \in {a}, y \in {b}} : TRUE

\* the value of a u64 below 2^31
ToNat(a) == a[1] + Radix * (a[2] + Radix * (a[3] + Radix * a[4]))

\* the bits of a 53-bit divisor that the estimate of a quotient digit leaves out
EstimateShift == MantissaBits - 23

\* the next base-256 digit of a quotient: floor(x / d) for x < 256 d, which
\* the quotient of the leading bits misses by at most one
QuotientDigit(x, d) ==
    LET estimate == ToNat(Shr(x, EstimateShift)) \div ToNat(Shr(d, EstimateShift))
    IN CHOOSE g \in {estimate - 1, estimate, estimate + 1} \cap (0 .. Radix - 1) :
          /\ ~Lt(x, MulSmall(d, g))
          /\ Lt(Sub(x, MulSmall(d, g)), d)

\* k more base-256 digits of the quotient q, and what is left over
RECURSIVE QuotientFrom(_, _, _, _)
QuotientFrom(rem, d, q, k) ==
    IF k = 0 THEN [q |-> q, rem |-> rem]
    ELSE CHOOSE r \in UNION {
            {QuotientFrom(Sub(x, MulSmall(d, g)), d, Add(MulSmall(q, Radix), U64(g)), k - 1) :
                g \in {QuotientDigit(x, d)}} :
                x \in {MulSmall(rem, Radix)}} : TRUE

QuotientDigits == U64Len - 1
QuotientBits == 8 * QuotientDigits

DivValue(a, b) ==
    IF IsZero(a.m) THEN f64_zero
    ELSE CHOOSE x \in
            {RoundF64(a.neg # b.neg, Extend(r.q, WideLen),
                      a.e - b.e - QuotientBits, ~IsZero(r.rem)) :
                r \in {IF Lt(a.m, b.m) THEN QuotientFrom(a.m, b.m, U64(0), QuotientDigits)
                       ELSE QuotientFrom(Sub(a.m, b.m), b.m, U64(1), QuotientDigits)}} : TRUE

\* a / b for b # 0
f64_div(a, b) == CHOOSE r \in {DivValue(x, y) : x \in {a}, y \in {b}} : TRUE

f64_neg(a) == IF IsZero(a.m) THEN a ELSE [a EXCEPT !.neg = ~@]

\* |a| < |b| for non-zero a and b
MagnitudeLt(a, b) == a.e < b.e \/ (a.e = b.e /\ Lt(a.m, b.m))

\* hi + lo for |hi| >= |lo| > 0: lo is aligned to hi's exponent when it can
\* reach hi's last bits, and cannot change the rounded sum when it is more
\* than QuotientBits binary places smaller
AddOrdered(hi, lo) ==
    IF hi.e - lo.e > QuotientBits THEN hi
    ELSE LET H == Shl(Extend(hi.m, WideLen), hi.e - lo.e)
             L == Extend(lo.m, WideLen)
         IN RoundF64(hi.neg, IF hi.neg = lo.neg THEN Add(H, L) ELSE Sub(H, L), lo.e, FALSE)

AddValue(a, b) ==
    IF IsZero(a.m) THEN b
    ELSE IF IsZero(b.m) THEN a
    ELSE IF MagnitudeLt(a, b) THEN AddOrdered(b, a) ELSE AddOrdered(a, b)

\* a + b
f64_add(a, b) == CHOOSE r \in {AddValue(x, y) : x \in {a}, y \in {b}} : TRUE

\* a - b
f64_sub(a, b) == f64_add(a, f64_neg(b))

\* a > 0.0
f64_positive(a) == ~a.neg /\ ~IsZero(a.m)

MaxU64 == Sub(U64(0), U64(1))

\* `a as u64`: truncation toward zero, saturating at 0 and at u64::MAX
f64_to_u64(a) ==
    IF a.neg \/ IsZero(a.m) THEN U64(0)
    ELSE IF a.e >= 0
    THEN (IF a.e + MantissaBits > 8 * U64Len THEN MaxU64 ELSE Shl(a.m, a.e))
    ELSE IF -a.e >= MantissaBits THEN U64(0)
    ELSE Shr(a.m, -a.e)

\* (each operation takes its operands as values, {f(x) : x \in {a}} being
\* the set of the one result)

-----------------------------------------------------------------------------
(* util/mod.rs, constants.rs *)

POWER_SCALE == 1000000
DATA_COLLECTION_INTERVAL_MS == 100
DISPLAY_UPDATE_INTERVAL_MS == 200
AVERAGING_ITERATIONS == 10

\* the literal 0xFFFF_FFFF of the wrap-around branch
WrapConstant == U32Of(65535, 65535)

\* the mutant of C29: the arithmetic is done on 32-bit values
calculate_power_uw_u32(energy_start, energy_end, time_interval_ms, energy_unit) ==
    LET start == Extend(energy_start, 4)
        end == Extend(energy_end, 4)
        energy_difference ==
            IF Lt(end, start)
            THEN Sub(Add(end, Extend(WrapConstant, 4)), start)
            ELSE Sub(end, start)
        energy_uj == Shr(MulSmall(energy_difference, POWER_SCALE), energy_unit)
    IN Extend(DivSmall(MulSmall(energy_uj, 1000), time_interval_ms), U64Len)

\* the mutant of C6: the wrap-around branch taken on end <= start
calculate_power_uw_le(energy_start, energy_end, time_interval_ms, energy_unit) ==
    LET energy_difference ==
            IF ~Lt(energy_start, energy_end)
            THEN Sub(Add(energy_end, WrapConstant), energy_start)
            ELSE Sub(energy_end, energy_start)
        energy_uj == Shr(MulSmall(energy_difference, POWER_SCALE), energy_unit)
    IN DivSmall(MulSmall(energy_uj, 1000), time_interval_ms)

\* the mutant of C7: no wrap-around branch, the difference wraps as a u64
calculate_power_uw_nowrap(energy_start, energy_end, time_interval_ms, energy_unit) ==
    LET energy_difference == Sub(energy_end, energy_start)
        energy_uj == Shr(MulSmall(energy_difference, POWER_SCALE), energy_unit)
    IN DivSmall(MulSmall(energy_uj, 1000), time_interval_ms)

calculate_power_uw(energy_start, energy_end, time_interval_ms, energy_unit) ==
    LET energy_difference ==
            IF Lt(energy_end, energy_start)
            THEN Sub(Add(energy_end, WrapConstant), energy_start)
            ELSE Sub(energy_end, energy_start)
        energy_uj == Shr(MulSmall(energy_difference, POWER_SCALE), energy_unit)
    IN DivSmall(MulSmall(energy_uj, 1000), time_interval_ms)

-----------------------------------------------------------------------------
(* cpu_type.rs *)

CoreTypes == {"PCore", "ECore", "Unknown"}
CpuTypes == {"Intel", "Amd", "Unsupported"}

\* /proc/cpuinfo is the set of the vendor signatures its text contains
\* (the empty set when the file is unreadable)
detect_cpu_type(cpuinfo) ==
    IF "GenuineIntel" \in cpuinfo THEN "Intel"
    ELSE IF "AuthenticAMD" \in cpuinfo THEN "Amd"
    ELSE "Unsupported"

\* the mutant of C20: the text is not lower-cased
LowerChar_same(ch) == ch

\* str::to_lowercase on the ASCII letters the attribute texts use
LowerChar(ch) ==
    CASE ch = "P" -> "p" [] ch = "E" -> "e" [] ch = "C" -> "c"
      [] ch = "O" -> "o" [] ch = "R" -> "r" [] ch = "F" -> "f"
      [] ch = "M" -> "m" [] ch = "A" -> "a" [] ch = "N" -> "n"
      [] ch = "I" -> "i" [] ch = "Y" -> "y"
      [] OTHER -> ch

RECURSIVE to_lowercase(_)
to_lowercase(text) ==
    IF text = <<>> THEN <<>>
    ELSE <<LowerChar(Head(text))>> \o to_lowercase(Tail(text))

\* str::contains
contains(text, pat) ==
    \E i \in 1..(Len(text) - Len(pat) + 1) : SubSeq(text, i, i + Len(pat) - 1) = pat

KwPerformance == <<"p","e","r","f","o","r","m","a","n","c","e">>
KwPCore == <<"p","-","c","o","r","e">>
KwEfficiency == <<"e","f","f","i","c","i","e","n","c","y">>
KwECore == <<"e","-","c","o","r","e">>

\* msr: the result of read_msr(INTEL_CORE_TYPE_MSR, cpu_id), [ok, value];
\* attr: the result of reading cpuN/topology/core_type, [ok, text]
\* (trim() removes only leading and trailing whitespace, which no word
\* tested for has, so it does not change the result and is left out)
detect_core_type(cpuinfo, msr, attr) ==
    IF detect_cpu_type(cpuinfo) # "Intel" THEN "Unknown"
    ELSE IF msr.ok
    THEN IF Shr(msr.value, 24)[1] % 2 = 0 THEN "PCore" ELSE "ECore"
    ELSE IF attr.ok
    THEN LET content == to_lowercase(attr.text)
         IN IF contains(content, KwPerformance) \/ contains(content, KwPCore)
            THEN "PCore"
            ELSE IF contains(content, KwEfficiency) \/ contains(content, KwECore)
            THEN "ECore"
            ELSE "Unknown"
    ELSE "Unknown"

\* detect_core_type for logical CPU cpu_id of the machine h
DetectOn(h, cpu_id) ==
    detect_core_type(h.cpuinfo, h.msr_core_type[cpu_id], h.core_type_attr[cpu_id])

-----------------------------------------------------------------------------
(* mapper/mod.rs, mapper/intel.rs, mapper/amd.rs: topology discovery *)

\* a finite map extended or overwritten at one key (HashMap::insert)
Insert(m, k, v) == [x \in DOMAIN m \cup {k} |-> IF x = k THEN v ELSE m[x]]

EmptyMap == <<>>

EmptyMaps == [core_to_threads |-> EmptyMap, thread_to_core |-> EmptyMap]

\* the mutant of C8: a second thread of a core replaces the thread list
AddThread_replace(maps, cpu_id, core_id, core_type) ==
    [core_to_threads |->
        Insert(maps.core_to_threads, core_id,
               [threads |-> <<cpu_id>>, core_type |-> core_type]),
     thread_to_core |->
        Insert(maps.thread_to_core, cpu_id,
               [core |-> core_id, core_type |-> core_type])]

\* entry(core_id).and_modify(push, keep a known type).or_insert(..), then
\* thread_to_core.insert(cpu_id, (core_id, core_type))
AddThread(maps, cpu_id, core_id, core_type) ==
    [core_to_threads |->
        IF core_id \in DOMAIN maps.core_to_threads
        THEN LET old == maps.core_to_threads[core_id]
             IN Insert(maps.core_to_threads, core_id,
                       [threads |-> Append(old.threads, cpu_id),
                        core_type |-> IF old.core_type = "Unknown"
                                      THEN core_type ELSE old.core_type])
        ELSE Insert(maps.core_to_threads, core_id,
                    [threads |-> <<cpu_id>>, core_type |-> core_type]),
     thread_to_core |->
        Insert(maps.thread_to_core, cpu_id,
               [core |-> core_id, core_type |-> core_type])]

\* the AMD fallback's entry(..).and_modify(push).or_insert(..): the type of
\* an existing core is left alone
AddThreadAmd(maps, thread_id, core_id, core_type) ==
    [core_to_threads |->
        IF core_id \in DOMAIN maps.core_to_threads
        THEN LET old == maps.core_to_threads[core_id]
             IN Insert(maps.core_to_threads, core_id,
                       [threads |-> Append(old.threads, thread_id),
                        core_type |-> old.core_type])
        ELSE Insert(maps.core_to_threads, core_id,
                    [threads |-> <<thread_id>>, core_type |-> core_type]),
     thread_to_core |->
        Insert(maps.thread_to_core, thread_id,
               [core |-> core_id, core_type |-> core_type])]

NoCoreId == -1

\* the loop of read_topology_from_sysfs over the cpuN entries in the order
\* read_dir yields them; an entry without a readable core_id is skipped
RECURSIVE SysfsLoop(_, _, _)
SysfsLoop(h, entries, maps) ==
    IF entries = <<>> THEN maps
    ELSE LET cpu_id == Head(entries)
             core_id == h.sysfs_core_id[cpu_id]
         IN SysfsLoop(h, Tail(entries),
                      IF core_id = NoCoreId THEN maps
                      ELSE AddThread(maps, cpu_id, core_id, DetectOn(h, cpu_id)))

\* [status, maps]: "ok", or "error" for the NotFound result
read_topology_from_sysfs(h, entries) ==
    LET maps == SysfsLoop(h, entries, EmptyMaps)
    IN IF h.sysfs_readable /\ DOMAIN maps.core_to_threads # {}
       THEN [status |-> "ok", maps |-> maps]
       ELSE [status |-> "error", maps |-> EmptyMaps]

RECURSIVE IntelLoop(_, _, _, _)
IntelLoop(h, thread_id, physical_cores, maps) ==
    IF thread_id >= h.total_threads THEN maps
    ELSE LET core_id == IF thread_id < physical_cores THEN thread_id
                        ELSE thread_id % physical_cores
         IN IntelLoop(h, thread_id + 1, physical_cores,
                      AddThread(maps, thread_id, core_id, DetectOn(h, thread_id)))

\* IntelCoreMapper::map_threads_to_cores; thread_id % 0 panics
IntelMapThreads(h, entries) ==
    LET sysfs == read_topology_from_sysfs(h, entries)
    IN IF sysfs.status = "ok" THEN sysfs
       ELSE IF h.physical_cores = 0 /\ h.total_threads > 0
       THEN [status |-> "panic", maps |-> EmptyMaps]
       ELSE [status |-> "ok",
             maps |-> IntelLoop(h, 0, h.physical_cores, EmptyMaps)]

RECURSIVE AmdLoop(_, _, _, _)
AmdLoop(h, thread_id, threads_per_core, maps) ==
    IF thread_id >= h.total_threads THEN maps
    ELSE AmdLoop(h, thread_id + 1, threads_per_core,
                 AddThreadAmd(maps, thread_id, thread_id \div threads_per_core,
                              "Unknown"))

\* AmdCoreMapper::map_threads_to_cores; thread_id / 0 panics
AmdMapThreads(h, entries) ==
    LET sysfs == read_topology_from_sysfs(h, entries)
        threads_per_core == IF h.physical_cores > 0
                            THEN h.total_threads \div h.physical_cores
                            ELSE 1
    IN IF sysfs.status = "ok" THEN sysfs
       ELSE IF threads_per_core = 0 /\ h.total_threads > 0
       THEN [status |-> "panic", maps |-> EmptyMaps]
       ELSE [status |-> "ok",
             maps |-> AmdLoop(h, 0, threads_per_core, EmptyMaps)]

\* create_core_mapper: the mapper's vendor; Unsupported gets the Intel mapper
create_core_mapper(h) ==
    IF detect_cpu_type(h.cpuinfo) = "Amd" THEN "Amd" ELSE "Intel"

\* CpuUtilization::new
CpuUtilizationNew == [prev_stats |-> EmptyMap, utilization |-> EmptyMap]

\* IntelCoreMapper::new
IntelCoreMapperNew ==
    [min_pkg_power |-> NoValue, max_pkg_power |-> NoValue,
     idle_pkg_power |-> NoValue, idle_core_power |-> EmptyMap,
     core_types |-> EmptyMap,
     pcore_idle_power |-> NoValue, ecore_idle_power |-> NoValue,
     utilization |-> CpuUtilizationNew]

\* AmdCoreMapper, a struct without fields
AmdCoreMapperNew == [vendor |-> "Amd"]

NoTopology ==
    [cpu_type |-> "Unsupported", physical_cores |-> 0,
     core_to_threads |-> EmptyMap, thread_to_core |-> EmptyMap]

\* CpuTopology::new with the directory entries in the given order
CpuTopologyNew(h, entries) ==
    LET mapper == create_core_mapper(h)
        r == IF mapper = "Amd" THEN AmdMapThreads(h, entries)
             ELSE IntelMapThreads(h, entries)
    IN [status |-> IF r.status = "ok" THEN "built" ELSE r.status,
        topology |->
            IF r.status = "ok"
            THEN [cpu_type |-> mapper,
                  physical_cores |-> Cardinality(DOMAIN r.maps.core_to_threads),
                  core_to_threads |-> r.maps.core_to_threads,
                  thread_to_core |-> r.maps.thread_to_core,
                  mapper |-> IF mapper = "Amd" THEN AmdCoreMapperNew
                             ELSE IntelCoreMapperNew]
            ELSE NoTopology]

\* clone_box of a mapper: a new box holding self.clone()
clone_box(mapper) == mapper

\* impl Clone for CpuTopology: every field is copied or cloned
CpuTopologyClone(t) ==
    [cpu_type |-> t.cpu_type, physical_cores |-> t.physical_cores,
     core_to_threads |-> t.core_to_threads, thread_to_core |-> t.thread_to_core,
     mapper |-> clone_box(t.mapper)]

-----------------------------------------------------------------------------
(* SpecTopo: CpuTopology::new on a machine of at most MaxThreads logical CPUs *)

MaxThreads == 3

CpuIds == 0..(MaxThreads - 1)

Bit24 == U32Of(256, 0)

\* per logical CPU: what the core-type register and the sysfs attribute give
DetectCases ==
    { [msr |-> [ok |-> TRUE, value |-> U64(0)],
       attr |-> [ok |-> FALSE, text |-> <<>>]],
      [msr |-> [ok |-> TRUE, value |-> Bit24],
       attr |-> [ok |-> FALSE, text |-> <<>>]],
      [msr |-> [ok |-> FALSE, value |-> U64(0)],
       attr |-> [ok |-> FALSE, text |-> <<>>]] }

\* machines whose sysfs is readable: every cpuN has a core_id or none
SysfsMachines ==
    { [cpuinfo |-> {sig}, sysfs_readable |-> TRUE, sysfs_core_id |-> ids,
       msr_core_type |-> [c \in CpuIds |-> det[c].msr],
       core_type_attr |-> [c \in CpuIds |-> det[c].attr],
       total_threads |-> MaxThreads, physical_cores |-> MaxThreads] :
        sig \in {"GenuineIntel", "AuthenticAMD"},
        ids \in [CpuIds -> {NoCoreId, 0, 1}],
        det \in [CpuIds -> DetectCases] }

\* machines without a readable sysfs: num_cpus gives the two counts
FallbackMachines ==
    { [cpuinfo |-> sigs, sysfs_readable |-> FALSE,
       sysfs_core_id |-> [c \in CpuIds |-> NoCoreId],
       msr_core_type |-> [c \in CpuIds |-> det[c].msr],
       core_type_attr |-> [c \in CpuIds |-> det[c].attr],
       total_threads |-> total, physical_cores |-> physical] :
        sigs \in {{"GenuineIntel"}, {"AuthenticAMD"}, {}},
        total \in 1..MaxThreads, physical \in 0..MaxThreads,
        det \in [CpuIds -> DetectCases] }

\* the orders read_dir may yield the cpuN entries in
Orders(S) ==
    { o \in [1..Cardinality(S) -> S] : \A i, j \in DOMAIN o : i # j => o[i] # o[j] }

TopoInit ==
    /\ hw \in SysfsMachines \cup FallbackMachines
    /\ topology = NoTopology
    /\ display_topology = NoTopology
    /\ topo_status = "start"

TopoIdle ==
    /\ hw = [cpuinfo |-> {}, sysfs_readable |-> FALSE,
             sysfs_core_id |-> [c \in CpuIds |-> NoCoreId],
             msr_core_type |-> [c \in CpuIds |-> [ok |-> FALSE, value |-> U64(0)]],
             core_type_attr |-> [c \in CpuIds |-> [ok |-> FALSE, text |-> <<>>]],
             total_threads |-> 1, physical_cores |-> 1]
    /\ topology = NoTopology
    /\ display_topology = NoTopology
    /\ topo_status = "start"

NewTopology ==
    /\ topo_status = "start"
    /\ \E entries \in Orders(CpuIds) :
          LET r == CpuTopologyNew(hw, entries)
          IN /\ topology' = r.topology
             /\ topo_status' = r.status
    /\ UNCHANGED <<hw, display_topology, powerVars, monitorVars, windowVars, samplerVars, displayVars, estVars, calibVars>>

-----------------------------------------------------------------------------
(* monitor.rs: the averaging windows *)

\* the mutant of C9: the window is trimmed when it reaches the limit
PushBounded_early(readings, power) ==
    IF Len(Append(readings, power)) >= AVERAGING_ITERATIONS
    THEN Tail(Append(readings, power))
    ELSE Append(readings, power)

\* push_back, then pop_front when the length exceeds AVERAGING_ITERATIONS
PushBounded(readings, power) ==
    IF Len(Append(readings, power)) > AVERAGING_ITERATIONS
    THEN Tail(Append(readings, power))
    ELSE Append(readings, power)

\* PowerMonitor::new: one empty window per physical core of the topology
NewCoreWindows(t) == [c \in DOMAIN t.core_to_threads |-> <<>>]

\* PowerMonitor::update_readings: the new core_power_readings
UpdateCoreReadings(windows, core_powers) ==
    [c \in DOMAIN windows |->
        IF c \in DOMAIN core_powers
        THEN PushBounded(windows[c], core_powers[c])
        ELSE windows[c]]

\* readings.iter().sum() on u64
RECURSIVE SumU64(_)
SumU64(readings) ==
    IF readings = <<>> THEN U64(0)
    ELSE Add(Head(readings), SumU64(Tail(readings)))

\* an f64 is the exact quotient num / den (num a u64, den a natural): the
\* rounding of the floating-point division is not modelled
ZeroF64 == [num |-> U64(0), den |-> 1]

\* total as f64 / readings.len() as f64 / POWER_SCALE as f64
calculate_average_power(readings) ==
    IF readings = <<>> THEN ZeroF64
    ELSE [num |-> SumU64(readings), den |-> Len(readings) * POWER_SCALE]

\* the mutant of C30: only the cores with a reading in their window are
\* reported
calculate_averages_nonempty(t, pr, cpr) ==
    [package |-> calculate_average_power(pr),
     cores |-> [c \in {d \in DOMAIN cpr \cap DOMAIN t.core_to_threads : cpr[d] # <<>>} |->
                   [power |-> calculate_average_power(cpr[c]),
                    core_type |-> t.core_to_threads[c].core_type]],
     estimated |-> t.cpu_type = "Intel"]

\* PowerMonitor::calculate_averages on the monitor (t, pr, cpr)
calculate_averages(t, pr, cpr) ==
    [package |-> calculate_average_power(pr),
     cores |-> [c \in DOMAIN cpr \cap DOMAIN t.core_to_threads |->
                   [power |-> calculate_average_power(cpr[c]),
                    core_type |-> t.core_to_threads[c].core_type]],
     estimated |-> t.cpu_type = "Intel"]

NoReading == [package |-> ZeroF64, cores |-> EmptyMap, estimated |-> FALSE]

\* a machine without sysfs: two logical CPUs on two physical cores
TwoCoreMachine(sigs) ==
    [cpuinfo |-> sigs, sysfs_readable |-> FALSE,
     sysfs_core_id |-> [c \in CpuIds |-> NoCoreId],
     msr_core_type |-> [c \in CpuIds |-> [ok |-> FALSE, value |-> U64(0)]],
     core_type_attr |-> [c \in CpuIds |-> [ok |-> FALSE, text |-> <<>>]],
     total_threads |-> 2, physical_cores |-> 2]

AmdTopology == CpuTopologyNew(TwoCoreMachine({"AuthenticAMD"}), <<>>).topology

MonitorIdle ==
    /\ power_readings = <<>>
    /\ core_power_readings = EmptyMap
    /\ reading = NoReading

-----------------------------------------------------------------------------
(* SpecWindow: update_readings and calculate_averages called in turn, as   *)
(* the sampling loop does; the k-th call pushes the package power k and    *)
(* per-core powers 100 * (core + 1) + k, for all cores, for core 0 only or *)
(* for none, and always for a core id the topology does not have           *)

MaxCalls == 12
MaxPartial == 2
ForeignCoreId == 7

CorePowerArgs(kind, k) ==
    LET ids == IF kind = "all" THEN DOMAIN AmdTopology.core_to_threads
               ELSE IF kind = "first" THEN {0}
               ELSE {}
    IN [c \in ids \cup {ForeignCoreId} |-> U64(100 * (c + 1) + k)]

WindowInit ==
    /\ hw = TwoCoreMachine({"AuthenticAMD"})
    /\ topology = AmdTopology
    /\ display_topology = NoTopology
    /\ topo_status = "built"
    /\ power_readings = <<>>
    /\ core_power_readings = NewCoreWindows(AmdTopology)
    /\ reading = NoReading
    /\ wpc = "update"
    /\ calls = 0
    /\ pushed = [package |-> <<>>,
                 cores |-> [c \in DOMAIN AmdTopology.core_to_threads |-> <<>>]]

WindowIdle ==
    /\ wpc = "update"
    /\ calls = 0
    /\ pushed = [package |-> <<>>, cores |-> EmptyMap]

UpdateReadings ==
    /\ wpc = "update"
    /\ calls < MaxCalls
    /\ \E kind \in {"all", "first", "none"} :
          LET k == calls + 1
              core_powers == CorePowerArgs(kind, k)
          IN /\ kind # "all" => calls - Len(pushed.cores[1]) < MaxPartial
             /\ power_readings' = PushBounded(power_readings, U64(k))
             /\ core_power_readings' =
                    UpdateCoreReadings(core_power_readings, core_powers)
             /\ pushed' =
                    [package |-> Append(pushed.package, k),
                     cores |-> [c \in DOMAIN pushed.cores |->
                                   IF c \in DOMAIN core_powers
                                   THEN Append(pushed.cores[c], 100 * (c + 1) + k)
                                   ELSE pushed.cores[c]]]
    /\ calls' = calls + 1
    /\ wpc' = "average"
    /\ UNCHANGED <<reading, topoVars, powerVars, samplerVars, displayVars, estVars, calibVars>>

CalculateAverages ==
    /\ wpc = "average"
    /\ reading' = calculate_averages(topology, power_readings, core_power_readings)
    /\ wpc' = "update"
    /\ UNCHANGED <<power_readings, core_power_readings, calls, pushed>>
    /\ UNCHANGED <<topoVars, powerVars, samplerVars, displayVars, estVars, calibVars>>

-----------------------------------------------------------------------------
(* mapper/amd.rs, mapper/intel.rs: energy registers *)

\* the two results of read_msr
Ok(v) == [ok |-> TRUE, value |-> v]
Failed == [ok |-> FALSE, value |-> U64(0)]

\* the registers as one read finds them: regs.unit, regs.package and
\* regs.core[cpu] are results of read_msr, [ok, value]

\* (unit_msr >> 8) & 0x1F
get_energy_unit(regs) ==
    [ok |-> regs.unit.ok, value |-> Shr(regs.unit.value, 8)[1] % 32]

NoSnapshot == [package |-> NoValue, cores |-> EmptyMap, estimated |-> FALSE]

\* the mutant of C5: a failed per-core read is the snapshot's failure
AmdReadSnapshot_strict(t, regs) ==
    LET ctt == t.core_to_threads
    IN IF regs.package.ok /\ \A c \in DOMAIN ctt : regs.core[ctt[c].threads[1]].ok
       THEN [ok |-> TRUE,
             snapshot |->
                [package |-> regs.package.value,
                 cores |-> [c \in DOMAIN ctt |-> regs.core[ctt[c].threads[1]].value],
                 estimated |-> FALSE]]
       ELSE [ok |-> FALSE, snapshot |-> NoSnapshot]

\* AmdCoreMapper::read_energy_snapshot: the cores whose first thread's
\* register is readable, then the package register, whose failure is the
\* snapshot's
AmdReadSnapshot(t, regs) ==
    LET ctt == t.core_to_threads
        readable == {c \in DOMAIN ctt :
                        /\ ctt[c].threads # <<>>
                        /\ regs.core[ctt[c].threads[1]].ok}
    IN IF regs.package.ok
       THEN [ok |-> TRUE,
             snapshot |->
                [package |-> regs.package.value,
                 cores |-> [c \in readable |-> regs.core[ctt[c].threads[1]].value],
                 estimated |-> FALSE]]
       ELSE [ok |-> FALSE, snapshot |-> NoSnapshot]

\* IntelCoreMapper::read_energy_snapshot: the package register only
IntelReadSnapshot(regs) ==
    IF regs.package.ok
    THEN [ok |-> TRUE,
          snapshot |-> [package |-> regs.package.value, cores |-> EmptyMap,
                        estimated |-> TRUE]]
    ELSE [ok |-> FALSE, snapshot |-> NoSnapshot]

\* CpuTopology::read_energy_snapshot
read_energy_snapshot(t, regs) ==
    IF t.cpu_type = "Amd" THEN AmdReadSnapshot(t, regs) ELSE IntelReadSnapshot(regs)

-----------------------------------------------------------------------------
(* util/cpu.rs: CpuUtilization *)

\* the sum of the f64 values f[c], c in S, accumulated from 0.0 as the loops
\* over a HashMap do; the order of the iteration is the map's, and does not
\* change a sum of one or two terms
RECURSIVE f64_sum(_, _)
f64_sum(f, S) ==
    IF S = {} THEN f64_zero
    ELSE LET c == CHOOSE c \in S : TRUE IN f64_add(f64_sum(f, S \ {c}), f[c])

\* /proc/stat as one read finds it: stat.ok tells whether the file could be
\* read, stat.rows[cpu] is the row of cpuN, the fields after the label, a
\* field that does not parse as a number being -1

\* parts[i].parse().unwrap_or(0)
ParseField(field) == IF field < 0 THEN 0 ELSE field

\* the CpuStats of a row of at least 7 fields
CpuStatsOf(row) ==
    LET steal == IF Len(row) > 7 THEN ParseField(row[8]) ELSE 0
    IN [user |-> ParseField(row[1]), nice |-> ParseField(row[2]),
        system |-> ParseField(row[3]), idle |-> ParseField(row[4]),
        iowait |-> ParseField(row[5]), irq |-> ParseField(row[6]),
        softirq |-> ParseField(row[7]), steal |-> steal,
        total |-> ParseField(row[1]) + ParseField(row[2]) + ParseField(row[3])
                  + ParseField(row[4]) + ParseField(row[5]) + ParseField(row[6])
                  + ParseField(row[7]) + steal]

saturating_sub(a, b) == IF a > b THEN a - b ELSE 0

\* CpuUtilization::update: [ok, the tracker after the call]
update(u, stat) ==
    IF ~stat.ok THEN [ok |-> FALSE, tracker |-> u]
    ELSE
      LET new_stats == [cpu \in {c \in DOMAIN stat.rows : Len(stat.rows[c]) >= 7} |->
                            CpuStatsOf(stat.rows[cpu])]
          Of(cpu) ==
              IF cpu \notin DOMAIN new_stats THEN u.utilization[cpu]
              ELSE IF cpu \notin DOMAIN u.prev_stats THEN f64_zero
              ELSE LET current == new_stats[cpu]
                       prev == u.prev_stats[cpu]
                       total_diff == saturating_sub(current.total, prev.total)
                       idle_diff == saturating_sub(current.idle, prev.idle)
                                    + saturating_sub(current.iowait, prev.iowait)
                   IN IF total_diff > 0
                      THEN f64_sub(f64_from_nat(1),
                                   f64_div(f64_from_nat(idle_diff), f64_from_nat(total_diff)))
                      ELSE u.utilization[cpu]
      IN [ok |-> TRUE,
          tracker |->
             [prev_stats |-> new_stats,
              utilization |->
                 [cpu \in DOMAIN u.utilization \cup DOMAIN new_stats |-> Of(cpu)]]]

\* CpuUtilization::get_core_utilization
get_core_utilization(u, thread_to_core) ==
    LET threads == DOMAIN u.utilization \cap DOMAIN thread_to_core
        Of(c) == LET own == {t \in threads : thread_to_core[t].core = c}
                 IN f64_div(f64_sum(u.utilization, own), f64_from_nat(Cardinality(own)))
    IN [c \in {thread_to_core[t].core : t \in threads} |-> Of(c)]

-----------------------------------------------------------------------------
(* mapper/intel.rs: IntelCoreMapper *)

\* PowerMonitor::intel_mapper of a machine that is not Intel
NoMapper == [none |-> TRUE]

\* the mutant of C22: a core of unknown type uses the E-core value
TypeIdlePower_efficiency(m, core_type) ==
    IF core_type = "PCore" THEN m.pcore_idle_power ELSE m.ecore_idle_power

\* the idle power applicable to a core type: Unknown uses the P-core value
TypeIdlePower(m, core_type) ==
    IF core_type = "ECore" THEN m.ecore_idle_power ELSE m.pcore_idle_power

\* the mutant of C15: the baseline is never subtracted
single_core_min_power_loaded(nop_power, baseline_power, type_count) ==
    DivSmall(nop_power, type_count)

\* lines 254-259
single_core_min_power(nop_power, baseline_power, type_count) ==
    IF Lt(baseline_power, nop_power)
    THEN DivSmall(Sub(nop_power, baseline_power), type_count)
    ELSE DivSmall(nop_power, type_count)

\* lines 156-176: the cores a calibration of core_type can run on
CalibrationCores(t, core_type) ==
    {c \in DOMAIN t.core_to_threads :
        /\ t.core_to_threads[c].core_type = core_type
        /\ t.core_to_threads[c].threads # <<>>}

\* lines 186-190
TypeCount(t, core_type) ==
    Cardinality({c \in DOMAIN t.core_to_threads :
                    t.core_to_threads[c].core_type = core_type})

\* the mutant of C27: a measurement stores its value as the baseline of both
\* core types
calibrate_core_type_both(m, t, core_type, energy_unit, baseline_power, window) ==
    IF CalibrationCores(t, core_type) = {} \/ ~window[1].ok \/ ~window[2].ok
    THEN [ok |-> FALSE, mapper |-> m]
    ELSE CHOOSE r \in UNION {
            {[ok |-> TRUE,
              mapper |-> [m EXCEPT !.pcore_idle_power = p, !.ecore_idle_power = p]] :
                p \in {single_core_min_power(nop_power, baseline_power,
                                             TypeCount(t, core_type))}} :
                nop_power \in {calculate_power_uw(window[1].value, window[2].value,
                                                  1000, energy_unit)}} : TRUE

\* calibrate_core_type with the package register as the two reads of the
\* measurement window find it: [ok, the mapper after the call]
calibrate_core_type(m, t, core_type, energy_unit, baseline_power, window) ==
    IF CalibrationCores(t, core_type) = {} \/ ~window[1].ok \/ ~window[2].ok
    THEN [ok |-> FALSE, mapper |-> m]
    ELSE \* the union makes a value of the power before it is stored
         CHOOSE r \in UNION {
            {[ok |-> TRUE,
              mapper |->
                 IF core_type = "PCore" THEN [m EXCEPT !.pcore_idle_power = p]
                 ELSE IF core_type = "ECore" THEN [m EXCEPT !.ecore_idle_power = p]
                 ELSE [m EXCEPT !.pcore_idle_power = p, !.ecore_idle_power = p]] :
                p \in {single_core_min_power(nop_power, baseline_power,
                                             TypeCount(t, core_type))}} :
                nop_power \in {calculate_power_uw(window[1].value, window[2].value,
                                                  1000, energy_unit)}} : TRUE

RECURSIVE SumOver(_, _)
SumOver(f, S) ==
    IF S = {} THEN U64(0)
    ELSE LET c == CHOOSE c \in S : TRUE IN Add(f[c], SumOver(f, S \ {c}))

\* lines 91-104: one of the three calls of calibrate_core_type, made when
\* the calls before it succeeded and cores of the type are wanted
CalibrateIf(r, wanted, t, core_type, energy_unit, baseline_power, window) ==
    IF r.ok /\ wanted
    THEN calibrate_core_type(r.mapper, t, core_type, energy_unit, baseline_power, window)
    ELSE r

\* lines 106-122: the per-core idle powers and their sum
StoreIdlePowers(m) ==
    LET measured == {c \in DOMAIN m.core_types :
                        TypeIdlePower(m, m.core_types[c]) # NoValue}
        idle == [c \in measured |-> TypeIdlePower(m, m.core_types[c])]
    IN [m EXCEPT
          !.idle_core_power =
              [c \in DOMAIN m.idle_core_power \cup measured |->
                  IF c \in measured THEN idle[c] ELSE m.idle_core_power[c]],
          !.idle_pkg_power = SumOver(idle, measured)]

\* lines 57-59: the core types of the topology are stored
StoreCoreTypes(m, t) ==
    [m EXCEPT !.core_types =
        [c \in DOMAIN m.core_types \cup DOMAIN t.core_to_threads |->
            IF c \in DOMAIN t.core_to_threads
            THEN t.core_to_threads[c].core_type
            ELSE m.core_types[c]]]

\* lines 61-144, m0 being the mapper with the core types stored
CalibrateFrom(m0, t, energy_unit, cal) ==
    LET Count(core_type) ==
            Cardinality({c \in DOMAIN m0.core_types : m0.core_types[c] = core_type})
        baseline_power == calculate_power_uw(cal.baseline[1].value, cal.baseline[2].value,
                                             100, energy_unit)
        Finish(k) == IF k.ok THEN [ok |-> TRUE, mapper |-> StoreIdlePowers(k.mapper)]
                     ELSE k
    IN IF ~cal.baseline[1].ok \/ ~cal.baseline[2].ok
       THEN [ok |-> FALSE, mapper |-> m0]
       ELSE Finish(
              CalibrateIf(
                CalibrateIf(
                  CalibrateIf([ok |-> TRUE, mapper |-> m0], Count("PCore") > 0,
                              t, "PCore", energy_unit, baseline_power,
                              cal.window["PCore"]),
                  Count("ECore") > 0,
                  t, "ECore", energy_unit, baseline_power, cal.window["ECore"]),
                Count("PCore") = 0 /\ Count("ECore") = 0 /\ Count("Unknown") > 0,
                t, "Unknown", energy_unit, baseline_power, cal.window["Unknown"]))

\* IntelCoreMapper::calibrate; cal.unit is the unit register, cal.baseline
\* the package register at the two baseline reads, cal.window[core_type]
\* at the two reads of a measurement window: [ok, the mapper after the call]
calibrate(m, t, cal) ==
    IF ~get_energy_unit(cal).ok THEN [ok |-> FALSE, mapper |-> m]
    ELSE CalibrateFrom(StoreCoreTypes(m, t), t, get_energy_unit(cal).value, cal)

\* the mutant of C26: the minimum keeps the first package power
update_power_bounds_first(m, pkg) ==
    [m EXCEPT
        !.min_pkg_power = IF m.min_pkg_power = NoValue THEN pkg ELSE m.min_pkg_power,
        !.max_pkg_power = IF m.max_pkg_power = NoValue THEN pkg
                          ELSE IF Lt(m.max_pkg_power, pkg) THEN pkg
                          ELSE m.max_pkg_power]

\* IntelCoreMapper::update_power_bounds
update_power_bounds(m, pkg) ==
    [m EXCEPT
        !.min_pkg_power = IF m.min_pkg_power = NoValue THEN pkg
                          ELSE IF Lt(pkg, m.min_pkg_power) THEN pkg
                          ELSE m.min_pkg_power,
        !.max_pkg_power = IF m.max_pkg_power = NoValue THEN pkg
                          ELSE IF Lt(m.max_pkg_power, pkg) THEN pkg
                          ELSE m.max_pkg_power]

\* the mutant of C11: every core gets the whole dynamic power
DynamicShare_whole(dynamic_power, power_ratio) == dynamic_power

\* (dynamic_power as f64 * power_ratio) as u64
DynamicShare(dynamic_power, power_ratio) ==
    f64_to_u64(f64_mul(f64_from_u64(dynamic_power), power_ratio))

\* the mutant of C13: every core type weighs the same
Weight_flat(core_type) == 1

\* the weight of a core type in the distribution of the dynamic power
Weight(core_type) ==
    IF core_type = "PCore" THEN 3 ELSE IF core_type = "ECore" THEN 1 ELSE 2

\* the mutant of C17: without a calibrated idle power, 0
IdlePower_zero(m) == IF m.idle_pkg_power # NoValue THEN m.idle_pkg_power ELSE U64(0)

\* line 317: the calibrated idle power, else the observed minimum, else 0
IdlePower(m) ==
    IF m.idle_pkg_power # NoValue THEN m.idle_pkg_power
    ELSE IF m.min_pkg_power # NoValue THEN m.min_pkg_power
    ELSE U64(0)

\* the mutant of C14: the subtraction wraps
DynamicPower_wrapping(pkg, idle_power) == Sub(pkg, idle_power)

\* the mutant of C25: the whole package power is distributed
DynamicPower_whole(pkg, idle_power) == pkg

\* line 318: pkg_power.saturating_sub(idle_power)
DynamicPower(pkg, idle_power) ==
    IF Lt(idle_power, pkg) THEN Sub(pkg, idle_power) ELSE U64(0)

\* lines 326-339: the weighted utilization of the cores of the topology
\* that have a utilization
WeightedUtils(core_utils, core_to_threads) ==
    [c \in DOMAIN core_utils \cap DOMAIN core_to_threads |->
        f64_mul(core_utils[c], f64_from_nat(Weight(core_to_threads[c].core_type)))]

\* the mutant of C12: every core gets an even share of the idle package power
IdleCorePower_even(m, c, core_type, idle_power, core_count) ==
    DivSmall(idle_power, core_count)

\* lines 349-360 and 368-379: the idle power of a core
IdleCorePower(m, c, core_type, idle_power, core_count) ==
    IF TypeIdlePower(m, core_type) # NoValue THEN TypeIdlePower(m, core_type)
    ELSE IF c \in DOMAIN m.idle_core_power THEN m.idle_core_power[c]
    ELSE DivSmall(idle_power, core_count)

\* the mutant of C28: the non-idle branch gives every core of the topology a
\* power, a core without a weighted utilization its idle power
DistributePower_every(m, idle_power, dynamic_power, core_to_threads, weighted_utils, total_weighted_util) ==
    LET Idle(c) == IdleCorePower(m, c, core_to_threads[c].core_type, idle_power,
                                 Cardinality(DOMAIN core_to_threads))
    IN [c \in DOMAIN core_to_threads |->
          IF f64_positive(total_weighted_util) /\ c \in DOMAIN weighted_utils
          THEN Add(Idle(c),
                   DynamicShare(dynamic_power,
                                f64_div(weighted_utils[c], total_weighted_util)))
          ELSE Idle(c)]

\* lines 342-383: core_powers
DistributePower(m, idle_power, dynamic_power, core_to_threads, weighted_utils, total_weighted_util) ==
    LET Idle(c) == IdleCorePower(m, c, core_to_threads[c].core_type, idle_power,
                                 Cardinality(DOMAIN core_to_threads))
    IN IF f64_positive(total_weighted_util)
       THEN [c \in DOMAIN weighted_utils |->
                Add(Idle(c),
                    DynamicShare(dynamic_power,
                                 f64_div(weighted_utils[c], total_weighted_util)))]
       ELSE [c \in DOMAIN core_to_threads |-> Idle(c)]

\* lines 310-385, m being the mapper after the utilization update: the
\* mapper after the call, core_powers, and the call's locals
EstimateFrom(m, pkg, core_to_threads, thread_to_core) ==
    CHOOSE r \in UNION { UNION {
        {[mapper |-> b,
          core_powers |-> DistributePower(b, IdlePower(b), DynamicPower(pkg, IdlePower(b)),
                                          core_to_threads, w, total),
          idle_power |-> IdlePower(b),
          dynamic_power |-> DynamicPower(pkg, IdlePower(b)),
          core_utils |-> cu,
          total_weighted_util |-> total] :
            total \in {f64_sum(w, DOMAIN w)}} :
            w \in {WeightedUtils(cu, core_to_threads)}} :
            b \in {update_power_bounds(m, pkg)},
            cu \in {get_core_utilization(m.utilization, thread_to_core)}} : TRUE

\* IntelCoreMapper::estimate_core_powers with /proc/stat as the call finds
\* it; a failed update is ignored
estimate_core_powers(m, pkg, core_to_threads, thread_to_core, stat) ==
    CHOOSE r \in {EstimateFrom([m EXCEPT !.utilization = t], pkg, core_to_threads,
                               thread_to_core) :
                     t \in {update(m.utilization, stat).tracker}} : TRUE

-----------------------------------------------------------------------------
(* lib.rs: the sampling loop of monitor_cpu_power *)

\* the mutant of C10: every core of the initial snapshot gets a power, a
\* core missing from the final snapshot from a final counter of 0
AmdCorePowers_initial(initial, final, unit) ==
    [c \in DOMAIN initial.cores |->
        calculate_power_uw(initial.cores[c],
                           IF c \in DOMAIN final.cores THEN final.cores[c] ELSE U64(0),
                           DATA_COLLECTION_INTERVAL_MS, unit)]

\* the AMD branch: a power for each core with a counter in both snapshots
AmdCorePowers(initial, final, unit) ==
    [c \in DOMAIN initial.cores \cap DOMAIN final.cores |->
        calculate_power_uw(initial.cores[c], final.cores[c],
                           DATA_COLLECTION_INTERVAL_MS, unit)]

NoRead == [kind |-> "none"]

\* no call made yet
NoCall == [none |-> TRUE]

EstIdle ==
    /\ est_call = NoCall
    /\ observed = {}
    /\ calibration = "none"

CalibIdle ==
    /\ cpc = "idle"
    /\ kpc = "none"
    /\ running = FALSE
    /\ start_chan = "empty"
    /\ cal_call = NoCall

\* the number of estimate_core_powers calls made
EstCalls == IF est_call = NoCall THEN 0 ELSE est_call.call

\* the locals of an estimate_core_powers call, from what it returned with
\* the package power it was given, and the number of calls made
CallLocals(p) ==
    [call |-> EstCalls + 1,
     pkg_power |-> p.pkg_power, idle_power |-> p.idle_power,
     dynamic_power |-> p.dynamic_power, core_utils |-> p.core_utils,
     total_weighted_util |-> p.total_weighted_util]

SamplerIdle ==
    /\ mpc = "new"
    /\ monitoring_result = "pending"
    /\ loop_energy_unit = 0
    /\ initial_snapshot = NoSnapshot
    /\ final_snapshot = NoSnapshot
    /\ pkg_power = NoValue
    /\ loop_core_powers = EmptyMap
    /\ sent = 0
    /\ m_sleep = 0
    /\ intel_mapper = NoMapper
    /\ last_read = NoRead

DisplayIdle ==
    /\ chan = <<>>
    /\ dpc = "poll"
    /\ display_elapsed = 0
    /\ d_sleep = 0
    /\ shown = [seq |-> 0, reading |-> NoReading]

\* the positions inside the loop of lines 91-132
LoopPcs == {"snap1", "sleep", "snap2", "compute", "check"}

\* the mutant of C24: the monitor calibrates the mapper of its topology
SamplerNew_shared(Cals) ==
    /\ mpc = "new"
    /\ core_power_readings' = NewCoreWindows(topology)
    /\ power_readings' = <<>>
    /\ IF topology.cpu_type = "Intel"
       THEN \E cal \in Cals :
              /\ intel_mapper' = calibrate(topology.mapper, topology, cal).mapper
              /\ topology' = [topology EXCEPT !.mapper = intel_mapper']
              /\ calibration' = IF calibrate(topology.mapper, topology, cal).ok
                                THEN "ok" ELSE "failed"
              /\ last_read' = [kind |-> "calibration", found |-> cal]
       ELSE UNCHANGED <<intel_mapper, calibration, last_read, topology>>
    /\ mpc' = "unit"
    /\ UNCHANGED <<reading, monitoring_result, loop_energy_unit, initial_snapshot,
                   final_snapshot, pkg_power, loop_core_powers, sent, m_sleep>>
    /\ UNCHANGED <<est_call, observed>>
    /\ UNCHANGED <<hw, display_topology, topo_status>>
    /\ UNCHANGED <<powerVars, windowVars, displayVars, calibVars>>

\* line 88: PowerMonitor::new, whose calibration may fail without failing it
SamplerNew(Cals) ==
    /\ mpc = "new"
    /\ core_power_readings' = NewCoreWindows(topology)
    /\ power_readings' = <<>>
    /\ IF topology.cpu_type = "Intel"
       THEN \E cal \in Cals :
              /\ intel_mapper' = calibrate(IntelCoreMapperNew, topology, cal).mapper
              /\ calibration' = IF calibrate(IntelCoreMapperNew, topology, cal).ok
                                THEN "ok" ELSE "failed"
              /\ last_read' = [kind |-> "calibration", found |-> cal]
       ELSE UNCHANGED <<intel_mapper, calibration, last_read>>
    /\ mpc' = "unit"
    /\ UNCHANGED <<reading, monitoring_result, loop_energy_unit, initial_snapshot,
                   final_snapshot, pkg_power, loop_core_powers, sent, m_sleep>>
    /\ UNCHANGED <<est_call, observed>>
    /\ UNCHANGED <<powerVars, topoVars, windowVars, displayVars, calibVars>>

\* line 89: get_energy_unit()?
SamplerEnergyUnit(Regs) ==
    /\ mpc = "unit"
    /\ \E regs \in Regs :
          LET r == get_energy_unit(regs)
          IN /\ last_read' = [kind |-> "unit", found |-> regs]
             /\ IF r.ok
                THEN /\ loop_energy_unit' = r.value
                     /\ mpc' = "snap1"
                     /\ UNCHANGED monitoring_result
                ELSE /\ monitoring_result' = "err"
                     /\ mpc' = "join"
                     /\ UNCHANGED loop_energy_unit
    /\ UNCHANGED <<initial_snapshot, final_snapshot, pkg_power, loop_core_powers,
                   sent, m_sleep, intel_mapper>>
    /\ UNCHANGED <<powerVars, topoVars, monitorVars, windowVars, displayVars, estVars, calibVars>>

\* line 92: read_energy_snapshot()?, and the start of the sleep of line 93
SamplerInitial(Regs, maxTicks) ==
    /\ mpc = "snap1"
    /\ sent < maxTicks
    /\ \E regs \in Regs :
          LET r == read_energy_snapshot(topology, regs)
          IN /\ last_read' = [kind |-> "snapshot", found |-> regs]
             /\ IF r.ok
                THEN /\ initial_snapshot' = r.snapshot
                     /\ m_sleep' = DATA_COLLECTION_INTERVAL_MS
                     /\ mpc' = "sleep"
                     /\ UNCHANGED monitoring_result
                ELSE /\ monitoring_result' = "err"
                     /\ mpc' = "join"
                     /\ UNCHANGED <<initial_snapshot, m_sleep>>
    /\ UNCHANGED <<loop_energy_unit, final_snapshot, pkg_power, loop_core_powers,
                   sent, intel_mapper>>
    /\ UNCHANGED <<powerVars, topoVars, monitorVars, windowVars, displayVars, estVars, calibVars>>

\* line 93: the sleep is over
SamplerWake ==
    /\ mpc = "sleep"
    /\ m_sleep = 0
    /\ mpc' = "snap2"
    /\ UNCHANGED <<monitoring_result, loop_energy_unit, initial_snapshot,
                   final_snapshot, pkg_power, loop_core_powers, sent, m_sleep,
                   intel_mapper, last_read>>
    /\ UNCHANGED <<powerVars, topoVars, monitorVars, windowVars, displayVars, estVars, calibVars>>

\* line 94: read_energy_snapshot()?
SamplerFinal(Regs) ==
    /\ mpc = "snap2"
    /\ \E regs \in Regs :
          LET r == read_energy_snapshot(topology, regs)
          IN /\ last_read' = [kind |-> "snapshot", found |-> regs]
             /\ IF r.ok
                THEN /\ final_snapshot' = r.snapshot
                     /\ mpc' = "compute"
                     /\ UNCHANGED monitoring_result
                ELSE /\ monitoring_result' = "err"
                     /\ mpc' = "join"
                     /\ UNCHANGED final_snapshot
    /\ UNCHANGED <<loop_energy_unit, initial_snapshot, pkg_power, loop_core_powers,
                   sent, m_sleep, intel_mapper>>
    /\ UNCHANGED <<powerVars, topoVars, monitorVars, windowVars, displayVars, estVars, calibVars>>

\* the mutant of C23: the two snapshots of the tick are swapped
TickPowers_swapped(t, mapper, initial, final, unit, stat) ==
    [pkg_power |-> calculate_power_uw(final.package, initial.package,
                                      DATA_COLLECTION_INTERVAL_MS, unit)]
    @@
    IF initial.estimated
    THEN IF mapper # NoMapper
         THEN estimate_core_powers(
                  mapper,
                  calculate_power_uw(final.package, initial.package,
                                     DATA_COLLECTION_INTERVAL_MS, unit),
                  t.core_to_threads, t.thread_to_core, stat)
         ELSE [core_powers |-> EmptyMap, mapper |-> mapper]
    ELSE [core_powers |-> AmdCorePowers(final, initial, unit), mapper |-> mapper]

\* lines 96-121: pkg_power and core_powers of the tick, and the mapper
\* after it
TickPowers(t, mapper, initial, final, unit, stat) ==
    [pkg_power |-> calculate_power_uw(initial.package, final.package,
                                      DATA_COLLECTION_INTERVAL_MS, unit)]
    @@
    IF initial.estimated
    THEN IF mapper # NoMapper
         THEN estimate_core_powers(
                  mapper,
                  calculate_power_uw(initial.package, final.package,
                                     DATA_COLLECTION_INTERVAL_MS, unit),
                  t.core_to_threads, t.thread_to_core, stat)
         ELSE [core_powers |-> EmptyMap, mapper |-> mapper]
    ELSE [core_powers |-> AmdCorePowers(initial, final, unit), mapper |-> mapper]

\* lines 96-126: the powers of the tick, update_readings, and the send of
\* calculate_averages(); a send after the receiver is gone is dropped
SamplerCompute(Stats) ==
    /\ mpc = "compute"
    /\ \E stat \in Stats :
       \E p \in {TickPowers(topology, intel_mapper, initial_snapshot,
                            final_snapshot, loop_energy_unit, stat)} :
          /\ pkg_power' = p.pkg_power
          /\ loop_core_powers' = p.core_powers
          /\ intel_mapper' = p.mapper
          /\ IF initial_snapshot.estimated /\ intel_mapper # NoMapper
             THEN /\ last_read' = [kind |-> "stat", found |-> stat]
                  /\ est_call' = CallLocals(p)
                  /\ observed' = observed \cup {p.pkg_power}
             ELSE UNCHANGED <<last_read, est_call, observed>>
          /\ power_readings' = PushBounded(power_readings, p.pkg_power)
          /\ core_power_readings' = UpdateCoreReadings(core_power_readings, p.core_powers)
    /\ reading' = calculate_averages(topology, power_readings', core_power_readings')
    /\ chan' = IF dpc # "finished"
               THEN Append(chan, [seq |-> sent + 1, reading |-> reading'])
               ELSE chan
    /\ sent' = sent + 1
    /\ mpc' = "check"
    /\ UNCHANGED <<monitoring_result, loop_energy_unit, initial_snapshot,
                   final_snapshot, m_sleep>>
    /\ UNCHANGED <<dpc, display_elapsed, d_sleep, shown, calibration>>
    /\ UNCHANGED <<powerVars, topoVars, windowVars, calibVars>>

\* the mutant of C4: the loop goes on whatever is_finished() says
SamplerCheck_never ==
    /\ mpc = "check"
    /\ mpc' = "snap1"
    /\ UNCHANGED <<monitoring_result, loop_energy_unit, initial_snapshot,
                   final_snapshot, pkg_power, loop_core_powers, sent, m_sleep,
                   intel_mapper, last_read>>
    /\ UNCHANGED <<powerVars, topoVars, monitorVars, windowVars, displayVars, estVars, calibVars>>

\* lines 129-131: break when display_handle.is_finished()
SamplerCheck ==
    /\ mpc = "check"
    /\ IF dpc = "finished"
       THEN /\ monitoring_result' = "ok"
            /\ mpc' = "join"
       ELSE /\ mpc' = "snap1"
            /\ UNCHANGED monitoring_result
    /\ UNCHANGED <<loop_energy_unit, initial_snapshot, final_snapshot, pkg_power,
                   loop_core_powers, sent, m_sleep, intel_mapper, last_read>>
    /\ UNCHANGED <<powerVars, topoVars, monitorVars, windowVars, displayVars, estVars, calibVars>>

\* line 143: display_handle.join() returns once the display thread has
\* finished; only then does the function return and drop tx
MainJoin ==
    /\ mpc = "join"
    /\ dpc = "finished"
    /\ mpc' = "returned"
    /\ UNCHANGED <<monitoring_result, loop_energy_unit, initial_snapshot,
                   final_snapshot, pkg_power, loop_core_powers, sent, m_sleep,
                   intel_mapper, last_read>>
    /\ UNCHANGED <<powerVars, topoVars, monitorVars, windowVars, displayVars, estVars, calibVars>>

\* the smallest sleep of the program, thread::sleep(10 ms) of line 82, is
\* the step of the clock of the pipeline
PollSleepMs == 10

Min(a, b) == IF a < b THEN a ELSE b
Max(a, b) == IF a > b THEN a ELSE b

\* rx.try_recv() on a channel that is not empty: the oldest reading
TryRecv(queue) == [reading |-> Head(queue), rest |-> Tail(queue)]

\* the mutant of C18: the renderer does not wait for the display interval
IntervalElapsed_always(elapsed) == elapsed >= 0

\* line 65: the display interval has passed since last_display_time
IntervalElapsed(elapsed) == elapsed >= DISPLAY_UPDATE_INTERVAL_MS

\* lines 64-82: one round of the display loop up to its sleep; ok is the
\* result of display_power_readings. The sender tx lives until the function
\* returns, so Disconnected needs mpc = "returned"
DisplayPoll ==
    /\ dpc = "poll"
    /\ IF IntervalElapsed(display_elapsed) /\ chan # <<>>
       THEN \E ok \in BOOLEAN :
              IF ok
              THEN /\ shown' = TryRecv(chan).reading
                   /\ chan' = TryRecv(chan).rest
                   /\ display_elapsed' = 0
                   /\ d_sleep' = PollSleepMs
                   /\ dpc' = "sleep"
              ELSE /\ chan' = <<>>
                   /\ dpc' = "finished"
                   /\ UNCHANGED <<shown, display_elapsed, d_sleep>>
       ELSE IF IntervalElapsed(display_elapsed) /\ mpc = "returned"
       THEN /\ dpc' = "finished"
            /\ UNCHANGED <<chan, shown, display_elapsed, d_sleep>>
       ELSE /\ d_sleep' = PollSleepMs
            /\ dpc' = "sleep"
            /\ UNCHANGED <<chan, shown, display_elapsed>>
    /\ UNCHANGED <<powerVars, topoVars, monitorVars, windowVars, samplerVars, estVars, calibVars>>

\* line 82: the sleep is over
DisplayWake ==
    /\ dpc = "sleep"
    /\ d_sleep = 0
    /\ dpc' = "poll"
    /\ UNCHANGED <<chan, shown, display_elapsed, d_sleep>>
    /\ UNCHANGED <<powerVars, topoVars, monitorVars, windowVars, samplerVars, estVars, calibVars>>

\* ms milliseconds pass
Tick(ms) ==
    /\ m_sleep' = Max(m_sleep - ms, 0)
    /\ d_sleep' = Max(d_sleep - ms, 0)
    /\ display_elapsed' = Min(display_elapsed + ms, DISPLAY_UPDATE_INTERVAL_MS)
    /\ <<m_sleep, d_sleep, display_elapsed>>' # <<m_sleep, d_sleep, display_elapsed>>
    /\ UNCHANGED <<mpc, monitoring_result, loop_energy_unit, initial_snapshot,
                   final_snapshot, pkg_power, loop_core_powers, sent,
                   intel_mapper, last_read>>
    /\ UNCHANGED <<chan, dpc, shown>>
    /\ UNCHANGED <<powerVars, topoVars, monitorVars, windowVars, estVars, calibVars>>

-----------------------------------------------------------------------------
(* SpecAmd: the sampling loop alone, on an AMD machine of two cores, for   *)
(* MaxAmdTicks ticks; the clock steps by the sampling interval             *)

MaxAmdTicks == 1

\* contents of the unit register: unit 0 or 16, or the read fails
UnitRegs == { [unit |-> u] : u \in {Failed, Ok(U64(0)), Ok(U32Of(10, 4099))} }

\* contents of the energy registers: package and per-core counters that
\* advance, stand still or wrap between two reads; any read may fail
AmdRegs ==
    { [package |-> p,
       core |-> [c \in CpuIds |-> IF c = 0 THEN c0 ELSE IF c = 1 THEN c1 ELSE Failed]] :
        p \in {Failed, Ok(U64(1000)), Ok(U64(1050))},
        c0 \in {Failed, Ok(U64(100)), Ok(U32Of(65535, 65520))},
        c1 \in {Failed, Ok(U64(200)), Ok(U64(260))} }

\* calibration and /proc/stat are not read on AMD
NoCals == {}
NoStats == {[ok |-> FALSE, rows |-> EmptyMap]}

AmdInit ==
    /\ hw = TwoCoreMachine({"AuthenticAMD"})
    /\ topology = AmdTopology
    /\ display_topology = NoTopology
    /\ topo_status = "built"
    /\ MonitorIdle
    /\ SamplerIdle
    /\ DisplayIdle

-----------------------------------------------------------------------------
(* SpecPipe: the two threads of lib.rs monitor_cpu_power from the spawn of  *)
(* the display thread on, on an AMD machine of two cores and on a hybrid   *)
(* Intel machine, for MaxPipeTicks ticks                                   *)

MaxPipeTicks == 3

\* a hybrid machine: logical CPUs 0 and 1 on P-core 0, logical CPU 2 on
\* E-core 1
HybridMachine ==
    [cpuinfo |-> {"GenuineIntel"}, sysfs_readable |-> TRUE,
     sysfs_core_id |-> [c \in CpuIds |-> IF c <= 1 THEN 0 ELSE IF c = 2 THEN 1 ELSE NoCoreId],
     msr_core_type |-> [c \in CpuIds |-> IF c = 2 THEN Ok(Bit24) ELSE Ok(U64(0))],
     core_type_attr |-> [c \in CpuIds |-> [ok |-> FALSE, text |-> <<>>]],
     total_threads |-> 3, physical_cores |-> 2]

HybridTopology == CpuTopologyNew(HybridMachine, <<0, 1, 2>>).topology

PipeUnitRegs == { [unit |-> u] : u \in {Failed, Ok(U64(0))} }

\* the package register and the register of logical CPU 0 readable or not
PipeRegs ==
    { [package |-> p,
       core |-> [c \in CpuIds |-> IF c = 0 THEN c0 ELSE Ok(U64(200))]] :
        p \in {Failed, Ok(U64(1000))},
        c0 \in {Failed, Ok(U64(100))} }

\* a calibration that succeeds: baseline 10^8 uW, loaded 3 * 10^8 uW
CalOk ==
    [unit |-> Ok(U64(0)),
     baseline |-> <<Ok(U64(1000)), Ok(U64(1010))>>,
     window |-> [ct \in CoreTypes |-> <<Ok(U64(2000)), Ok(U64(2300))>>]]

\* and calibrations that fail at the unit read and in a measurement window
PipeCals ==
    { CalOk,
      [CalOk EXCEPT !.unit = Failed],
      [CalOk EXCEPT !.window = [ct \in CoreTypes |-> <<Ok(U64(2000)), Failed>>]] }

\* /proc/stat unreadable, or with the same rows at every read
PipeStats ==
    { [ok |-> FALSE, rows |-> EmptyMap],
      [ok |-> TRUE, rows |-> [c \in 0..2 |-> <<10, 0, 5, 80, 5, 0, 0, 0>>]] }

PipeInit ==
    /\ \/ /\ hw = TwoCoreMachine({"AuthenticAMD"})
          /\ topology = AmdTopology
       \/ /\ hw = HybridMachine
          /\ topology = HybridTopology
    /\ display_topology = CpuTopologyClone(topology)
    /\ topo_status = "built"
    /\ MonitorIdle
    /\ SamplerIdle
    /\ DisplayIdle

-----------------------------------------------------------------------------
(* SpecEst: PowerMonitor::new on Intel machines of two physical cores,     *)
(* with a calibration that succeeds or fails, then MaxEstCalls calls of    *)
(* IntelCoreMapper::estimate_core_powers                                   *)

MaxEstCalls == 2

\* the hybrid machine, the same with core 1 of unknown type beside a
\* P-core and beside an E-core, and with both cores of unknown type
EstMachines ==
    { HybridMachine,
      [HybridMachine EXCEPT !.msr_core_type[2] = Failed],
      [HybridMachine EXCEPT
          !.msr_core_type = [c \in CpuIds |-> IF c = 2 THEN Failed ELSE Ok(Bit24)]],
      [HybridMachine EXCEPT !.msr_core_type = [c \in CpuIds |-> Failed]] }

\* a calibration that succeeds, and calibrations that fail at the unit
\* read, at a baseline read, in every measurement window and in the
\* measurement window of the E-cores only
EstCals ==
    { CalOk,
      [CalOk EXCEPT !.unit = Failed],
      [CalOk EXCEPT !.baseline = <<Ok(U64(1000)), Failed>>],
      [CalOk EXCEPT !.window = [ct \in CoreTypes |-> <<Failed, Ok(U64(2300))>>]],
      [CalOk EXCEPT !.window["ECore"] = <<Ok(U64(2000)), Failed>>] }

\* package powers below, at and above the calibrated idle package power
EstPkgs == {U64(300000000), U64(400000000), U64(410000000)}

\* /proc/stat unreadable; at one read; 10 ticks later, logical CPU 0 idle
\* for 10 of them, logical CPU 1 for 9, logical CPU 2 for 4; and 10 ticks
\* after the first read, every logical CPU idle for 5 of them; and the
\* same two reads without a row for logical CPU 2, the only thread of
\* physical core 1
EstStats ==
    { [ok |-> FALSE, rows |-> EmptyMap],
      [ok |-> TRUE, rows |-> [c \in 0..2 |-> <<10, 0, 5, 80, 5, 0, 0, 0>>]],
      [ok |-> TRUE, rows |-> [c \in 0..2 |->
            IF c = 0 THEN <<10, 0, 5, 90, 5, 0, 0, 0>>
            ELSE IF c = 1 THEN <<11, 0, 5, 89, 5, 0, 0, 0>>
            ELSE <<16, 0, 5, 84, 5, 0, 0, 0>>]],
      [ok |-> TRUE, rows |-> [c \in 0..2 |-> <<15, 0, 5, 85, 5, 0, 0, 0>>]],
      [ok |-> TRUE, rows |-> [c \in 0..1 |-> <<10, 0, 5, 80, 5, 0, 0, 0>>]],
      [ok |-> TRUE, rows |-> [c \in 0..1 |-> <<15, 0, 5, 85, 5, 0, 0, 0>>]] }

\* before PowerMonitor::new
EstInit ==
    /\ \E machine \in EstMachines :
          /\ hw = machine
          /\ topology = CpuTopologyNew(machine, <<0, 1, 2>>).topology
          /\ display_topology = NoTopology
    /\ topo_status = "built"
    /\ MonitorIdle
    /\ SamplerIdle
    /\ EstIdle

\* one call of estimate_core_powers, with the package power of the tick and
\* /proc/stat as the call finds it
EstimateCall(Pkgs, Stats) ==
    /\ intel_mapper # NoMapper
    /\ EstCalls < MaxEstCalls
    /\ \E pkg \in Pkgs, stat \in Stats :
       \E r \in {estimate_core_powers(intel_mapper, pkg, topology.core_to_threads,
                                      topology.thread_to_core, stat)} :
          /\ pkg_power' = pkg
          /\ loop_core_powers' = r.core_powers
          /\ intel_mapper' = r.mapper
          /\ last_read' = [kind |-> "stat", found |-> stat]
          /\ est_call' = CallLocals([pkg_power |-> pkg] @@ r)
          /\ observed' = observed \cup {pkg}
    /\ UNCHANGED <<mpc, monitoring_result, loop_energy_unit, initial_snapshot,
                   final_snapshot, sent, m_sleep, calibration>>
    /\ UNCHANGED <<powerVars, topoVars, monitorVars, windowVars, displayVars, calibVars>>

-----------------------------------------------------------------------------
(* SpecDetect: CpuTopology::new on machines with a readable sysfs, whose     *)
(* logical CPUs differ in what the core-type register and the core_type      *)
(* attribute give                                                            *)

\* values of the core-type register: bit 24 clear, alone and with every
\* other bit of the low 32 set, and bit 24 set, alone and with every other
DetectMsrValues == {U64(0), U32Of(65279, 65535), Bit24, U32Of(65535, 65535)}

\* texts of cpuN/topology/core_type
DetectTexts ==
    { <<"P", "e", "r", "f", "o", "r", "m", "a", "n", "c", "e">>,
      <<"P", "-", "C", "o", "r", "e">>,
      <<"E", "f", "f", "i", "c", "i", "e", "n", "c", "y">>,
      <<"E", "-", "c", "o", "r", "e">>,
      <<"e", "-", "c", "o", "r", "e", " ", "p", "-", "c", "o", "r", "e">>,
      <<"a", "t", "o", "m">> }

DetectInputs ==
    {[msr |-> Ok(v), attr |-> [ok |-> FALSE, text |-> <<>>]] : v \in DetectMsrValues}
       \cup {[msr |-> Failed, attr |-> [ok |-> FALSE, text |-> <<>>]]}
       \cup {[msr |-> Failed, attr |-> [ok |-> TRUE, text |-> t]] : t \in DetectTexts}

\* logical CPUs 0 and 1 on core 0, logical CPU 2 on core 1
DetectMachines ==
    { [cpuinfo |-> sigs, sysfs_readable |-> TRUE,
       sysfs_core_id |-> [c \in CpuIds |-> c \div 2],
       msr_core_type |-> [c \in CpuIds |-> det[c].msr],
       core_type_attr |-> [c \in CpuIds |-> det[c].attr],
       total_threads |-> MaxThreads, physical_cores |-> 2] :
        sigs \in {{"GenuineIntel"}, {"AuthenticAMD"}, {}},
        det \in [CpuIds -> DetectInputs] }

DetectInit ==
    /\ hw \in DetectMachines
    /\ topology = NoTopology
    /\ display_topology = NoTopology
    /\ topo_status = "start"

-----------------------------------------------------------------------------
(* SpecUtil: the utilization tracker of the mapper over successive reads of *)
(* /proc/stat, on two logical CPUs                                          *)

\* rows of /proc/stat: one read; a later read where iowait has gone down
\* while idle went up; a later read where every counter went up or stayed;
\* a row with an idle field that is not a number; a row that is too short
UtilRows ==
    { <<10, 0, 5, 80, 10, 0, 0, 0>>,
      <<10, 0, 5, 95, 0, 0, 0, 0>>,
      <<15, 0, 5, 85, 10, 0, 0, 0>>,
      <<10, 0, 5, -1, 10, 0, 0>>,
      <<10, 0, 5, 80>> }

UtilStats ==
    {[ok |-> FALSE, rows |-> EmptyMap]}
       \cup {[ok |-> TRUE, rows |-> rows] : rows \in [0..1 -> UtilRows]}

\* a mapper whose tracker has read nothing yet
UtilInit ==
    /\ intel_mapper = IntelCoreMapperNew
    /\ mpc = "new"
    /\ monitoring_result = "pending"
    /\ loop_energy_unit = 0
    /\ initial_snapshot = NoSnapshot
    /\ final_snapshot = NoSnapshot
    /\ pkg_power = NoValue
    /\ loop_core_powers = EmptyMap
    /\ sent = 0
    /\ m_sleep = 0
    /\ last_read = NoRead

\* intel.rs line 308: one call of self.utilization.update(), whose error is
\* dropped
UtilizationUpdate(Stats) ==
    /\ intel_mapper # NoMapper
    /\ \E stat \in Stats :
       \E r \in {update(intel_mapper.utilization, stat)} :
          intel_mapper' = [intel_mapper EXCEPT !.utilization = r.tracker]
    /\ UNCHANGED <<mpc, monitoring_result, loop_energy_unit, initial_snapshot,
                   final_snapshot, pkg_power, loop_core_powers, sent, m_sleep,
                   last_read>>
    /\ UNCHANGED <<powerVars, topoVars, monitorVars, windowVars, displayVars, estVars, calibVars>>

-----------------------------------------------------------------------------
(* SpecCalib: one call of IntelCoreMapper::calibrate_core_type, the          *)
(* calibrating context and the worker thread it spawns, step by step        *)

CalibMachines ==
    { HybridMachine,
      [HybridMachine EXCEPT !.msr_core_type = [c \in CpuIds |-> Ok(U64(0))]],
      [HybridMachine EXCEPT
          !.msr_core_type = [c \in CpuIds |-> IF c = 2 THEN Failed ELSE Ok(Bit24)]] }

\* baseline powers below and above the power the window measures
CalibBaselines == {U64(100000000), U64(500000000)}

\* the package register at the first and at the second read of the window
CalibInitialReads == {Failed, Ok(U64(2000))}
CalibFinalReads == {Failed, Ok(U64(2000)), Ok(U64(2300))}

\* calibrate has stored the core types and is about to call
CalibInit ==
    /\ \E machine \in CalibMachines :
          /\ hw = machine
          /\ topology = CpuTopologyNew(machine, <<0, 1, 2>>).topology
          /\ display_topology = NoTopology
          /\ intel_mapper = StoreCoreTypes(IntelCoreMapperNew, topology)
    /\ topo_status = "built"
    /\ mpc = "new"
    /\ monitoring_result = "pending"
    /\ loop_energy_unit = 0
    /\ initial_snapshot = NoSnapshot
    /\ final_snapshot = NoSnapshot
    /\ pkg_power = NoValue
    /\ loop_core_powers = EmptyMap
    /\ sent = 0
    /\ m_sleep = 0
    /\ last_read = NoRead
    /\ CalibIdle

\* what no step of the call changes
CalibFrame ==
    /\ UNCHANGED <<mpc, monitoring_result, loop_energy_unit, initial_snapshot,
                   final_snapshot, pkg_power, loop_core_powers, sent, m_sleep>>
    /\ UNCHANGED <<powerVars, topoVars, monitorVars, windowVars, displayVars, estVars>>

\* the call returns r, dropping the sender of the start channel
CalibReturn(r) ==
    /\ cpc' = "returned"
    /\ intel_mapper' = r.mapper
    /\ cal_call' = [cal_call EXCEPT !.result = IF r.ok THEN "ok" ELSE "err"]
    /\ start_chan' = IF start_chan = "empty" THEN "closed" ELSE start_chan

\* lines 147-233: the search for a core, the channel, the flag and the spawn
CalibEnter(Types, Baselines) ==
    /\ cpc = "idle"
    /\ \E core_type \in Types, baseline_power \in Baselines :
          /\ cal_call' = [core_type |-> core_type, energy_unit |-> 0,
                          baseline_power |-> baseline_power, window |-> <<>>,
                          released |-> "no", early |-> FALSE, result |-> "pending"]
          /\ IF CalibrationCores(topology, core_type) = {}
             THEN /\ cpc' = "returned"
                  /\ UNCHANGED <<kpc, running, start_chan>>
             ELSE /\ cpc' = "sleep"
                  /\ kpc' = "recv"
                  /\ running' = TRUE
                  /\ start_chan' = "empty"
    /\ UNCHANGED <<intel_mapper, last_read>>
    /\ CalibFrame

\* lines 236-239: after the sleep of 200 ms, tx.send(())
CalibSend ==
    /\ cpc = "sleep"
    /\ cpc' = "snap1"
    /\ start_chan' = "sent"
    /\ UNCHANGED <<kpc, running, cal_call, intel_mapper, last_read>>
    /\ CalibFrame

\* read_energy_snapshot()? in the measurement window
CalibRead(at, next, Reads) ==
    /\ cpc = at
    /\ \E read \in Reads :
          /\ last_read' = [kind |-> "window", found |-> read]
          /\ IF read.ok
             THEN /\ cpc' = next
                  /\ cal_call' = [cal_call EXCEPT !.window = Append(@, read)]
                  /\ UNCHANGED <<intel_mapper, start_chan>>
             ELSE CalibReturn([ok |-> FALSE, mapper |-> intel_mapper])
    /\ UNCHANGED <<kpc, running>>
    /\ CalibFrame

\* line 242
CalibReadInitial(Reads) == CalibRead("snap1", "snap2", Reads)

\* lines 243-244: the sleep of 1000 ms and the second read
CalibReadFinal(Reads) == CalibRead("snap2", "stop", Reads)

\* line 247: running.store(false)
CalibStop ==
    /\ cpc = "stop"
    /\ cpc' = "join"
    /\ running' = FALSE
    /\ UNCHANGED <<kpc, start_chan, cal_call, intel_mapper, last_read>>
    /\ CalibFrame

\* lines 248-278: handle.join() returns once the worker has exited; the
\* power is computed and stored
CalibJoin ==
    /\ cpc = "join"
    /\ kpc = "exited"
    /\ CalibReturn(calibrate_core_type(intel_mapper, topology, cal_call.core_type,
                                       cal_call.energy_unit, cal_call.baseline_power,
                                       cal_call.window))
    /\ UNCHANGED <<kpc, running, last_read>>
    /\ CalibFrame

\* line 217: rx.recv_timeout(200 ms) returns with the signal, at once when
\* the sender is gone, or when the 200 ms have passed without a signal
WorkerRecv ==
    /\ kpc = "recv"
    /\ kpc' = "check"
    /\ start_chan' = IF start_chan = "sent" THEN "taken" ELSE start_chan
    /\ cal_call' = [cal_call EXCEPT
                       !.released = IF start_chan = "sent" THEN "signal"
                                    ELSE IF start_chan = "closed" THEN "disconnected"
                                    ELSE "timeout"]
    /\ UNCHANGED <<cpc, running, intel_mapper, last_read>>
    /\ CalibFrame

\* line 220: while thread_running.load()
WorkerCheck ==
    /\ kpc = "check"
    /\ kpc' = IF running THEN "batch" ELSE "exited"
    /\ UNCHANGED <<cpc, running, start_chan, cal_call, intel_mapper, last_read>>
    /\ CalibFrame

\* lines 222-227: a batch of 1 000 000 iterations of the nop sequence
WorkerBatch ==
    /\ kpc = "batch"
    /\ kpc' = "recheck"
    /\ cal_call' = [cal_call EXCEPT !.early = @ \/ start_chan = "empty"]
    /\ UNCHANGED <<cpc, running, start_chan, intel_mapper, last_read>>
    /\ CalibFrame

\* lines 229-231: if !thread_running.load() { break }
WorkerRecheck ==
    /\ kpc = "recheck"
    /\ kpc' = IF running THEN "check" ELSE "exited"
    /\ UNCHANGED <<cpc, running, start_chan, cal_call, intel_mapper, last_read>>
    /\ CalibFrame

-----------------------------------------------------------------------------
(* SpecPower: calculate_power_uw applied to 32-bit counter values *)

\* 32-bit counter values: small ones, the spec's examples, and the values
\* around 2^16, 2^31 and 2^32
CounterValues ==
    { U64(0), U64(1), U64(16), U64(100), U64(150), U64(65535), U64(65536),
      U32Of(32767, 65535), U32Of(32768, 0), U32Of(65535, 65520),
      U32Of(65535, 65534), U32Of(65535, 65535) }

EnergyUnits == 0..31
Intervals == {1, 7, DATA_COLLECTION_INTERVAL_MS, 1000}

PowerInit ==
    /\ in_start \in CounterValues
    /\ in_end \in CounterValues
    /\ in_interval \in Intervals
    /\ in_unit \in EnergyUnits
    /\ out_power = NoValue

PowerIdle ==
    /\ in_start = U64(0)
    /\ in_end = U64(0)
    /\ in_interval = 1
    /\ in_unit = 0
    /\ out_power = NoValue

Calculate ==
    /\ out_power = NoValue
    /\ out_power' = calculate_power_uw(in_start, in_end, in_interval, in_unit)
    /\ UNCHANGED <<in_start, in_end, in_interval, in_unit>>
    /\ UNCHANGED <<topoVars, monitorVars, windowVars, samplerVars, displayVars, estVars, calibVars>>

-----------------------------------------------------------------------------
(* Specifications *)

PowerNext == Calculate

InitPower == PowerInit /\ TopoIdle /\ MonitorIdle /\ WindowIdle /\ SamplerIdle /\ DisplayIdle /\ EstIdle /\ CalibIdle

SpecPower == InitPower /\ [][PowerNext]_vars

TopoNext == NewTopology

InitTopo == TopoInit /\ PowerIdle /\ MonitorIdle /\ WindowIdle /\ SamplerIdle /\ DisplayIdle /\ EstIdle /\ CalibIdle

WindowNext == UpdateReadings \/ CalculateAverages

InitWindow == WindowInit /\ PowerIdle /\ SamplerIdle /\ DisplayIdle /\ EstIdle /\ CalibIdle

SpecWindow == InitWindow /\ [][WindowNext]_vars

AmdNext ==
    \/ SamplerNew(NoCals)
    \/ SamplerEnergyUnit(UnitRegs)
    \/ SamplerInitial(AmdRegs, MaxAmdTicks)
    \/ SamplerWake
    \/ SamplerFinal(AmdRegs)
    \/ SamplerCompute(NoStats)
    \/ SamplerCheck
    \/ Tick(DATA_COLLECTION_INTERVAL_MS)

PipeNext ==
    \/ SamplerNew(PipeCals)
    \/ SamplerEnergyUnit(PipeUnitRegs)
    \/ SamplerInitial(PipeRegs, MaxPipeTicks)
    \/ SamplerWake
    \/ SamplerFinal(PipeRegs)
    \/ SamplerCompute(PipeStats)
    \/ SamplerCheck
    \/ MainJoin
    \/ DisplayPoll
    \/ DisplayWake
    \/ Tick(PollSleepMs)

InitPipe == PipeInit /\ PowerIdle /\ WindowIdle /\ EstIdle /\ CalibIdle

SpecPipe == InitPipe /\ [][PipeNext]_vars

\* SpecPipeFair: the pipeline for MaxFairTicks ticks, where the scheduler
\* lets each thread run and time passes
MaxFairTicks == 1

FairNext ==
    \/ SamplerNew(PipeCals)
    \/ SamplerEnergyUnit(PipeUnitRegs)
    \/ SamplerInitial(PipeRegs, MaxFairTicks)
    \/ SamplerWake
    \/ SamplerFinal(PipeRegs)
    \/ SamplerCompute(PipeStats)
    \/ SamplerCheck
    \/ MainJoin
    \/ DisplayPoll
    \/ DisplayWake
    \/ Tick(PollSleepMs)

SpecPipeFair ==
    /\ InitPipe
    /\ [][FairNext]_vars
    /\ WF_vars(SamplerNew(PipeCals) \/ SamplerEnergyUnit(PipeUnitRegs)
               \/ SamplerInitial(PipeRegs, MaxFairTicks) \/ SamplerWake
               \/ SamplerFinal(PipeRegs) \/ SamplerCompute(PipeStats)
               \/ SamplerCheck \/ MainJoin)
    /\ WF_vars(DisplayPoll \/ DisplayWake)
    /\ WF_vars(Tick(PollSleepMs))

InitAmd == AmdInit /\ PowerIdle /\ WindowIdle /\ EstIdle /\ CalibIdle

\* SpecOrder: the sampling loop on the AMD machine for MaxOrderTicks ticks,
\* with counters that advance, stand still or wrap from one read to the next
MaxOrderTicks == 2

OrderRegs ==
    { [package |-> p,
       core |-> [c \in CpuIds |-> IF c = 0 THEN c0 ELSE IF c = 1 THEN Ok(U64(200)) ELSE Failed]] :
        p \in {Failed, Ok(U64(1000)), Ok(U64(1050))},
        c0 \in {Ok(U64(100)), Ok(U32Of(65535, 65520))} }

OrderNext ==
    \/ SamplerNew(NoCals)
    \/ SamplerEnergyUnit(UnitRegs)
    \/ SamplerInitial(OrderRegs, MaxOrderTicks)
    \/ SamplerWake
    \/ SamplerFinal(OrderRegs)
    \/ SamplerCompute(NoStats)
    \/ SamplerCheck
    \/ Tick(DATA_COLLECTION_INTERVAL_MS)

SpecOrder == InitAmd /\ [][OrderNext]_vars

\* SpecAverages: the monitor of the hybrid machine, P-core 0 and E-core 1,
\* without its calibration; update_readings and calculate_averages are
\* called in turn as in SpecWindow, and calculate_averages may also be the
\* first call, on the windows PowerMonitor::new made
AveragesInit ==
    /\ hw = HybridMachine
    /\ topology = HybridTopology
    /\ display_topology = NoTopology
    /\ topo_status = "built"
    /\ power_readings = <<>>
    /\ core_power_readings = NewCoreWindows(HybridTopology)
    /\ reading = NoReading
    /\ wpc \in {"update", "average"}
    /\ calls = 0
    /\ pushed = [package |-> <<>>,
                 cores |-> [c \in DOMAIN HybridTopology.core_to_threads |-> <<>>]]

InitAverages == AveragesInit /\ PowerIdle /\ SamplerIdle /\ DisplayIdle /\ EstIdle /\ CalibIdle

SpecAverages == InitAverages /\ [][WindowNext]_vars

SpecAmd == InitAmd /\ [][AmdNext]_vars

SpecTopo == InitTopo /\ [][TopoNext]_vars

CalibNext ==
    \/ CalibEnter(CoreTypes, CalibBaselines)
    \/ CalibSend
    \/ CalibReadInitial(CalibInitialReads)
    \/ CalibReadFinal(CalibFinalReads)
    \/ CalibStop
    \/ CalibJoin
    \/ WorkerRecv
    \/ WorkerCheck
    \/ WorkerBatch
    \/ WorkerRecheck

InitCalib ==
    CalibInit /\ PowerIdle /\ MonitorIdle /\ WindowIdle /\ DisplayIdle /\ EstIdle

SpecCalib == InitCalib /\ [][CalibNext]_vars

EstNext ==
    \/ SamplerNew(EstCals)
    \/ EstimateCall(EstPkgs, EstStats)

InitEst == EstInit /\ PowerIdle /\ WindowIdle /\ DisplayIdle /\ CalibIdle

SpecEst == InitEst /\ [][EstNext]_vars

DetectNext == NewTopology

InitDetect ==
    /\ DetectInit /\ PowerIdle /\ MonitorIdle /\ WindowIdle /\ SamplerIdle
    /\ DisplayIdle /\ EstIdle /\ CalibIdle

SpecDetect == InitDetect /\ [][DetectNext]_vars

UtilNext == UtilizationUpdate(UtilStats)

InitUtil ==
    /\ UtilInit /\ PowerIdle /\ TopoIdle /\ MonitorIdle /\ WindowIdle
    /\ DisplayIdle /\ EstIdle /\ CalibIdle

SpecUtil == InitUtil /\ [][UtilNext]_vars

-----------------------------------------------------------------------------
(* Claims about calculate_power_uw *)

\* the claimed value computed from a delta without any 64-bit limit:
\* ((delta * 1_000_000) >> unit) * 1000 / interval on 128-bit values
PowerOfDelta(delta, interval, unit) ==
    DivSmall(MulSmall(Shr(MulSmall(Extend(delta, WideLen), 1000000), unit), 1000),
             interval)

C7_WrapDelta ==
    (out_power # NoValue /\ Lt(in_end, in_start)) =>
        LET delta == Sub(Add(Extend(in_end, WideLen), Extend(WrapConstant, WideLen)),
                         Extend(in_start, WideLen))
        IN /\ \A i \in 5..WideLen : delta[i] = 0
           /\ Extend(out_power, WideLen) = PowerOfDelta(delta, in_interval, in_unit)

\* start = 0xFFFFFFF0, end = 0x10: the delta is 0x10 + 0xFFFFFFFF - 0xFFFFFFF0 = 31
C7_Witness ==
    /\ in_start = U32Of(65535, 65520)
    /\ in_end = U64(16)
    /\ in_unit = 0
    /\ in_interval = DATA_COLLECTION_INTERVAL_MS
    /\ out_power = U64(31 * 10000000)

-----------------------------------------------------------------------------
(* Claims about topology discovery *)

\* the logical thread ids discovery was given: with a usable sysfs the cpuN
\* entries that have a core_id, otherwise 0 .. total_threads - 1
LogicalThreadIds ==
    IF hw.sysfs_readable /\ \E c \in CpuIds : hw.sysfs_core_id[c] # NoCoreId
    THEN {c \in CpuIds : hw.sysfs_core_id[c] # NoCoreId}
    ELSE 0..(hw.total_threads - 1)

Occurrences(seq, x) == Cardinality({i \in DOMAIN seq : seq[i] = x})

\* C8: in every topology built, each logical thread id is in exactly one
\* core's thread list, exactly once, no other id is in a list, and
\* thread_to_core gives for each thread the core whose list contains it
C8_TopologyInvariant ==
    topo_status = "built" =>
        LET ctt == topology.core_to_threads
            ttc == topology.thread_to_core
        IN /\ \A t \in LogicalThreadIds :
                /\ Cardinality({c \in DOMAIN ctt : Occurrences(ctt[c].threads, t) > 0}) = 1
                /\ \A c \in DOMAIN ctt : Occurrences(ctt[c].threads, t) <= 1
           /\ \A c \in DOMAIN ctt :
                \A i \in DOMAIN ctt[c].threads : ctt[c].threads[i] \in LogicalThreadIds
           /\ DOMAIN ttc = LogicalThreadIds
           /\ \A t \in LogicalThreadIds :
                /\ ttc[t].core \in DOMAIN ctt
                /\ Occurrences(ctt[ttc[t].core].threads, t) = 1

\* a built topology with a core of two threads and a second core
C8_Witness ==
    /\ topo_status = "built"
    /\ \E c \in DOMAIN topology.core_to_threads :
          Len(topology.core_to_threads[c].threads) >= 2
    /\ Cardinality(DOMAIN topology.core_to_threads) >= 2

-----------------------------------------------------------------------------
(* Claims about the averaging windows *)

\* the last n elements of a sequence (all of it when it is shorter)
LastN(seq, n) ==
    IF Len(seq) <= n THEN seq ELSE SubSeq(seq, Len(seq) - n + 1, Len(seq))

RECURSIVE SumNat(_)
SumNat(seq) == IF seq = <<>> THEN 0 ELSE Head(seq) + SumNat(Tail(seq))

AsU64s(seq) == [i \in DOMAIN seq |-> U64(seq[i])]

\* sum / len / 1_000_000 of the last N values pushed
AverageOfLast(seq) ==
    [num |-> U64(SumNat(LastN(seq, AVERAGING_ITERATIONS))),
     den |-> Len(LastN(seq, AVERAGING_ITERATIONS)) * 1000000]

\* C9: every window holds at most N = 10 samples, the last N values pushed
\* into it in insertion order, and the average reported for a non-empty
\* window is the sum of these samples / their number / 1_000_000
C9_MovingWindow ==
    /\ Len(power_readings) <= 10
    /\ power_readings = AsU64s(LastN(pushed.package, 10))
    /\ \A c \in DOMAIN core_power_readings :
          /\ Len(core_power_readings[c]) <= 10
          /\ core_power_readings[c] = AsU64s(LastN(pushed.cores[c], 10))
    /\ (wpc = "update" /\ calls > 0) =>
          /\ reading.package = AverageOfLast(pushed.package)
          /\ \A c \in DOMAIN pushed.cores :
                pushed.cores[c] # <<>> =>
                    reading.cores[c].power = AverageOfLast(pushed.cores[c])

\* N + 1 values were pushed into the package window and into a core window
\* that skipped a call, and the averages were reported
C9_Witness ==
    /\ wpc = "update"
    /\ Len(pushed.package) > AVERAGING_ITERATIONS + 1
    /\ power_readings[1] = U64(Len(pushed.package) - AVERAGING_ITERATIONS + 1)
    /\ Len(pushed.cores[1]) = AVERAGING_ITERATIONS + 1
    /\ Len(core_power_readings[1]) = AVERAGING_ITERATIONS

-----------------------------------------------------------------------------
(* Claims about the pipeline of lib.rs *)

\* C1: the channel between the sampler and the renderer holds at most one
\* pending PowerReading
C1_AtMostOnePending == Len(chan) <= 1

\* C2: whenever the renderer redraws, the reading it draws is the latest
\* one the sampler has sent
C2_MostRecentWins == [][shown' # shown => shown'.seq = sent]_vars

\* C18: the renderer redraws only when the display interval has passed
\* since its previous redraw and the channel holds a reading; the redraw
\* takes the oldest reading from the channel and restarts the interval, so
\* no two redraws fall within one display interval
C18_RedrawNeedsIntervalAndReading ==
    [][shown' # shown =>
          /\ display_elapsed >= DISPLAY_UPDATE_INTERVAL_MS
          /\ chan # <<>>
          /\ shown' = Head(chan)
          /\ chan' = Tail(chan)
          /\ display_elapsed' = 0]_vars

\* C18 witness: after a redraw the renderer polls while a reading is
\* pending and the display interval has not passed
C18_Witness ==
    /\ shown.reading # NoReading
    /\ dpc = "poll"
    /\ chan # <<>>
    /\ display_elapsed < DISPLAY_UPDATE_INTERVAL_MS

\* C3: whenever the sampling loop has stopped and the main thread waits for
\* the renderer, the renderer eventually exits and monitor_cpu_power returns
C3_SamplerFirstShutdown == (mpc = "join") ~> (mpc = "returned")

\* C4: a tick that completes after the renderer has finished is the
\* sampler's last: the check at its end leaves the loop
C4_RendererFirstShutdown ==
    [][(mpc = "check" /\ dpc = "finished" /\ mpc' # mpc)
          => (mpc' = "join" /\ monitoring_result' = "ok")]_vars

\* a tick has completed after the renderer finished, and the sampler has
\* left its loop
C4_Witness ==
    /\ dpc = "finished"
    /\ mpc = "join"
    /\ monitoring_result = "ok"
    /\ sent >= 2

-----------------------------------------------------------------------------
(* Claims about the AMD tick *)

\* C10: after the computation of an AMD tick the per-core power map has
\* exactly the cores with a counter in both snapshots, each with
\* calculate_power_uw of its own two counters over the 100 ms interval, and
\* its windows have taken these powers: the tick completed
C10_AmdCorePowers ==
    (mpc = "check" /\ ~initial_snapshot.estimated) =>
        /\ DOMAIN loop_core_powers = DOMAIN initial_snapshot.cores \cap DOMAIN final_snapshot.cores
        /\ \A c \in DOMAIN loop_core_powers :
              /\ loop_core_powers[c] =
                    calculate_power_uw(initial_snapshot.cores[c], final_snapshot.cores[c],
                                       100, loop_energy_unit)
              /\ core_power_readings[c] # <<>>
              /\ core_power_readings[c][Len(core_power_readings[c])] = loop_core_powers[c]
        /\ \A c \in DOMAIN core_power_readings \ DOMAIN loop_core_powers :
              Len(core_power_readings[c]) < sent

\* the spec's scenario, with core 0 missing from the final snapshot: core
\* energies {100, 200} then {-, 260}, unit 0: core 1 gets 60 * 10^7 uW and
\* core 0 is omitted
C10_Witness ==
    /\ mpc = "check"
    /\ loop_energy_unit = 0
    /\ DOMAIN initial_snapshot.cores = {0, 1}
    /\ DOMAIN final_snapshot.cores = {1}
    /\ DOMAIN loop_core_powers = {1}
    /\ loop_core_powers[1] = U64(600000000)
    /\ core_power_readings[0] = <<>>

\* C24: no step of the sampler or of the renderer changes the vendor, the
\* count of physical cores or a thread/core map of the sampler's topology or
\* of the renderer's clone; the renderer's clone keeps the maps of the
\* topology and a mapper no calibration or utilization update has reached,
\* whatever the sampler has stored in its own mapper
C24_TopologyCopiesUnchanged ==
    /\ [](/\ display_topology.cpu_type = topology.cpu_type
          /\ display_topology.physical_cores = topology.physical_cores
          /\ display_topology.core_to_threads = topology.core_to_threads
          /\ display_topology.thread_to_core = topology.thread_to_core
          /\ display_topology.mapper \in {IntelCoreMapperNew, AmdCoreMapperNew})
    /\ [][topology' = topology /\ display_topology' = display_topology]_vars

\* C24 witness: the sampler's mapper holds a calibration and utilizations,
\* and the renderer has redrawn; the mapper of the renderer's clone holds
\* neither
C24_Witness ==
    /\ intel_mapper # NoMapper
    /\ intel_mapper.idle_pkg_power # NoValue
    /\ intel_mapper.utilization.utilization # EmptyMap
    /\ shown.reading # NoReading
    /\ display_topology.mapper = IntelCoreMapperNew
    /\ display_topology.mapper # intel_mapper

\* C23: in every tick the initial snapshot is read first, the final
\* snapshot after the sleep, and the powers are computed last; a snapshot
\* is replaced only by the read of its own step, and the package power and
\* the per-core powers of the tick are those of the tick's pair, initial
\* first
C23_SnapshotOrder ==
    [][/\ (mpc = "snap1" /\ mpc' # mpc) => mpc' \in {"sleep", "join"}
       /\ (mpc = "sleep" /\ mpc' # mpc) => mpc' = "snap2"
       /\ (mpc = "snap2" /\ mpc' # mpc) => mpc' \in {"compute", "join"}
       /\ (mpc = "compute" /\ mpc' # mpc) => mpc' = "check"
       /\ (mpc = "snap1" /\ mpc' = "sleep") =>
              initial_snapshot'.package = last_read'.found.package.value
       /\ (mpc = "snap2" /\ mpc' = "compute") =>
              final_snapshot'.package = last_read'.found.package.value
       /\ initial_snapshot' # initial_snapshot => (mpc = "snap1" /\ mpc' = "sleep")
       /\ final_snapshot' # final_snapshot => (mpc = "snap2" /\ mpc' = "compute")
       /\ (pkg_power' # pkg_power \/ loop_core_powers' # loop_core_powers) =>
              mpc = "compute"
       /\ (mpc = "compute" /\ mpc' = "check") =>
              /\ pkg_power' = calculate_power_uw(initial_snapshot.package,
                                                 final_snapshot.package,
                                                 100, loop_energy_unit)
              /\ ~initial_snapshot.estimated =>
                    \A c \in DOMAIN loop_core_powers' :
                        loop_core_powers'[c] =
                            calculate_power_uw(initial_snapshot.cores[c],
                                               final_snapshot.cores[c],
                                               100, loop_energy_unit)]_vars

\* C23 witness: a second tick has computed its powers from a pair whose
\* final package counter is below the initial one, after a first tick
\* whose counter advanced
C23_Witness ==
    /\ mpc = "check"
    /\ sent = 2
    /\ initial_snapshot.package = U64(1050)
    /\ final_snapshot.package = U64(1000)
    /\ power_readings[1] = calculate_power_uw(U64(1000), U64(1050), 100, loop_energy_unit)
    /\ pkg_power = calculate_power_uw(U64(1050), U64(1000), 100, loop_energy_unit)
    /\ pkg_power # power_readings[1]

-----------------------------------------------------------------------------
(* PowerMonitor::new and the estimator: claims C11 to C14 and C17, on SpecEst *)

\* the idle baseline of physical core c in the mapper of the latest call:
\* that of its type, an unknown core taking the P-core value, else the
\* per-core value stored by calibrate, else an even share of the call's
\* idle package power
BaselineOf(c) ==
    LET own == IF topology.core_to_threads[c].core_type = "ECore"
               THEN intel_mapper.ecore_idle_power
               ELSE intel_mapper.pcore_idle_power
    IN IF own # NoValue THEN own
       ELSE IF c \in DOMAIN intel_mapper.idle_core_power THEN intel_mapper.idle_core_power[c]
       ELSE DivSmall(est_call.idle_power, Cardinality(DOMAIN topology.core_to_threads))

\* the dynamic share of core c in the latest call, in microwatts
ShareOf(c) == ToNat(loop_core_powers[c]) - ToNat(BaselineOf(c))

RECURSIVE SharesOver(_)
SharesOver(S) ==
    IF S = {} THEN 0
    ELSE LET c == CHOOSE c \in S : TRUE IN ShareOf(c) + SharesOver(S \ {c})

\* 0.0 <= u <= 1.0
InUnitInterval(u) ==
    /\ ~u.neg
    /\ IsZero(u.m) \/ u.e + MantissaBits <= 0 \/ u = f64_from_nat(1)

\* the latest call took the non-idle branch
NonIdleCall == est_call # NoCall /\ f64_positive(est_call.total_weighted_util)

C11_Case ==
    /\ NonIdleCall
    /\ \A c \in DOMAIN est_call.core_utils : InUnitInterval(est_call.core_utils[c])

\* what the dynamic shares of the latest call fall short of its dynamic power
Shortfall == ToNat(est_call.dynamic_power) - SharesOver(DOMAIN loop_core_powers)

C12_IdleCase ==
    /\ est_call # NoCall
    /\ \A c \in DOMAIN est_call.core_utils : IsZero(est_call.core_utils[c].m)

\* C12: when every per-core utilization is exactly 0, every physical core of
\* the topology gets exactly its idle baseline, with no dynamic share
C12_IdleBaselines ==
    C12_IdleCase =>
        /\ DOMAIN loop_core_powers = DOMAIN topology.core_to_threads
        /\ \A c \in DOMAIN loop_core_powers : loop_core_powers[c] = BaselineOf(c)

\* C12 witness: a call on a calibrated mapper with every utilization 0 and
\* dynamic power to distribute
C12_Witness ==
    /\ C12_IdleCase
    /\ calibration = "ok"
    /\ DOMAIN est_call.core_utils = DOMAIN topology.core_to_threads
    /\ ~IsZero(est_call.dynamic_power)

\* the weight table of C13
TableWeight(core_type) ==
    CASE core_type = "PCore" -> 3
      [] core_type = "Unknown" -> 2
      [] core_type = "ECore" -> 1

TableWeighted(c) ==
    f64_mul(est_call.core_utils[c], f64_from_nat(TableWeight(topology.core_to_threads[c].core_type)))

MinObserved == CHOOSE x \in observed : \A y \in observed : ~Lt(y, x)

\* C14: the idle package power of a call is the calibrated value if one is
\* stored, else the minimum of the package powers observed, else zero; the
\* dynamic power is the package power minus it when positive, else 0
C14_IdleAndDynamicPower ==
    est_call # NoCall =>
        /\ est_call.idle_power =
              IF intel_mapper.idle_pkg_power # NoValue THEN intel_mapper.idle_pkg_power
              ELSE IF observed # {} THEN MinObserved
              ELSE U64(0)
        /\ est_call.dynamic_power =
              U64(IF ToNat(est_call.pkg_power) > ToNat(est_call.idle_power)
                  THEN ToNat(est_call.pkg_power) - ToNat(est_call.idle_power)
                  ELSE 0)

\* C14 witness: a call with a package power below the calibrated idle power
C14_Witness ==
    /\ est_call # NoCall
    /\ intel_mapper.idle_pkg_power # NoValue
    /\ Lt(est_call.pkg_power, intel_mapper.idle_pkg_power)

\* C19: after any sequence of updates of the utilization tracker, every
\* stored utilization of a logical CPU lies in [0,1]
C19_UtilizationInUnitInterval ==
    intel_mapper # NoMapper =>
        \A cpu \in DOMAIN intel_mapper.utilization.utilization :
            InUnitInterval(intel_mapper.utilization.utilization[cpu])

\* C17: when calibrate returned an error, PowerMonitor::new has still built
\* the monitor with its mapper and a window for each core, and every
\* estimator call uses as idle package power the least package power
\* observed over the estimator calls so far
C17_CalibrationFailureNotFatal ==
    calibration = "failed" =>
        /\ intel_mapper # NoMapper
        /\ DOMAIN core_power_readings = DOMAIN topology.core_to_threads
        /\ est_call # NoCall => est_call.idle_power = MinObserved

\* C17 witness: after a failed calibration, a second estimator call with a
\* package power above that of the first
C17_Witness ==
    /\ calibration = "failed"
    /\ est_call # NoCall
    /\ Cardinality(observed) = 2
    /\ Lt(est_call.idle_power, est_call.pkg_power)

-----------------------------------------------------------------------------
(* calibrate_core_type: claims C15 and C16, on SpecCalib *)

\* the call has returned Ok
CalibratedOk == cpc = "returned" /\ cal_call.result = "ok"

\* m, b and c of C15 in the call that returned: the power measured over the
\* window, the baseline power and the number of cores of the type
MeasuredPower ==
    ToNat(calculate_power_uw(cal_call.window[1].value, cal_call.window[2].value,
                             1000, cal_call.energy_unit))
BaselinePower == ToNat(cal_call.baseline_power)
CoresOfType ==
    Cardinality({c \in DOMAIN topology.core_to_threads :
                    topology.core_to_threads[c].core_type = cal_call.core_type})

\* the per-core idle estimate of the calibrated type is v: a calibration of
\* unknown cores stores it for both types
StoredEstimateIs(v) ==
    /\ cal_call.core_type # "ECore" => intel_mapper.pcore_idle_power = U64(v)
    /\ cal_call.core_type # "PCore" => intel_mapper.ecore_idle_power = U64(v)

MaxOf(a, b) == IF a > b THEN a ELSE b

\* C15, as stated: the estimate stored is max(m - b, m) / c
C15_MaxFormula ==
    CalibratedOk =>
        StoredEstimateIs(MaxOf(MeasuredPower - BaselinePower, MeasuredPower) \div CoresOfType)

\* C15, amended: the estimate stored is (m - b) / c when m > b, and m / c
\* otherwise
C15_DifferenceWhenAboveBaseline ==
    CalibratedOk =>
        StoredEstimateIs((IF MeasuredPower > BaselinePower
                          THEN MeasuredPower - BaselinePower
                          ELSE MeasuredPower) \div CoresOfType)

\* C15 witness: a calibration of two P-cores that measured more than the
\* baseline
C15_Witness ==
    /\ CalibratedOk
    /\ CoresOfType = 2
    /\ BaselinePower > 0
    /\ MeasuredPower > BaselinePower

\* C16: once calibrate_core_type has returned after starting the worker,
\* the worker has been told to stop and has exited
C16_WorkerStopped ==
    (cpc = "returned" /\ kpc # "none") => (~running /\ kpc = "exited")

\* the sum of the per-core powers the latest call returned, in microwatts
RECURSIVE PowersOver(_)
PowersOver(S) ==
    IF S = {} THEN 0
    ELSE LET c == CHOOSE c \in S : TRUE IN ToNat(loop_core_powers[c]) + PowersOver(S \ {c})

\* the mapper holds nothing a calibration stores
NothingCalibrated ==
    /\ intel_mapper.idle_pkg_power = NoValue
    /\ intel_mapper.pcore_idle_power = NoValue
    /\ intel_mapper.ecore_idle_power = NoValue
    /\ intel_mapper.idle_core_power = EmptyMap

C26_MinimumIncludesCurrent ==
    (est_call # NoCall /\ intel_mapper.idle_pkg_power = NoValue) =>
        /\ intel_mapper.min_pkg_power # NoValue
        /\ intel_mapper.min_pkg_power = MinObserved
        /\ est_call.idle_power = MinObserved
        /\ ~Lt(pkg_power, est_call.idle_power)
        /\ est_call.call = 1 => IsZero(est_call.dynamic_power)
        /\ pkg_power = MinObserved => IsZero(est_call.dynamic_power)

\* C26 witness: the second call on a mapper without a calibrated idle
\* package power, with a package power below that of the first call
C26_Witness ==
    /\ est_call # NoCall
    /\ intel_mapper.idle_pkg_power = NoValue
    /\ est_call.call = 2
    /\ Cardinality(observed) = 2
    /\ pkg_power = MinObserved
    /\ est_call.idle_power = pkg_power
    /\ Lt(pkg_power, intel_mapper.max_pkg_power)
    /\ IsZero(est_call.dynamic_power)

\* the number of physical cores of the topology
CoreCount == Cardinality(DOMAIN topology.core_to_threads)

\* the topology has cores of the type
HasCores(core_type) ==
    \E c \in DOMAIN topology.core_to_threads :
        topology.core_to_threads[c].core_type = core_type

CoresWithUtilization ==
    {topology.thread_to_core[t].core :
        t \in DOMAIN intel_mapper.utilization.utilization
               \cap DOMAIN topology.thread_to_core}

C28_WitnessIdle ==
    /\ est_call # NoCall
    /\ ~NonIdleCall
    /\ CoresWithUtilization = {}
    /\ DOMAIN loop_core_powers = DOMAIN topology.core_to_threads

-----------------------------------------------------------------------------
(* calculate_power_uw without overflow: claim C29, on SpecPower *)

\* a is below 2^(8 * len)
FitsIn(a, len) == \A i \in DOMAIN a : i > len => a[i] = 0

Wide(a) == Extend(a, WideLen)

\* the values calculate_power_uw computes for the inputs of the state, in
\* double-width arithmetic that cannot wrap for 64-bit inputs
WideSum == Add(Wide(in_end), Wide(WrapConstant))
WideDifference ==
    IF Lt(in_end, in_start) THEN Sub(WideSum, Wide(in_start))
    ELSE Sub(Wide(in_end), Wide(in_start))
WideScaled == MulSmall(WideDifference, POWER_SCALE)
WideMicrojoules == Shr(WideScaled, in_unit)
WideMilli == MulSmall(WideMicrojoules, 1000)
WidePower == DivSmall(WideMilli, in_interval)

\* C29: for 32-bit counter values, units 0..31 and intervals >= 1 no step of
\* calculate_power_uw leaves 0 .. 2^64-1: the subtraction does not go below
\* 0, the difference is below 2^32, the difference times 1 000 000 and the
\* microjoules times 1000 are below 2^64, and the u64 result is the exact
\* value
C29_NoOverflow ==
    (/\ out_power # NoValue
     /\ FitsIn(in_start, 4) /\ FitsIn(in_end, 4)
     /\ in_unit \in 0..31 /\ in_interval >= 1) =>
        /\ Lt(in_end, in_start) => ~Lt(WideSum, Wide(in_start))
        /\ FitsIn(WideSum, U64Len)
        /\ FitsIn(WideDifference, 4)
        /\ FitsIn(WideScaled, U64Len)
        /\ FitsIn(WideMilli, U64Len)
        /\ out_power = Extend(WidePower, U64Len)

\* C29 witness: the largest difference, 2^32 - 1, with unit 0 and interval
\* 1: the result, 4 294 967 295 000 000 000 uW, needs all eight bytes
C29_Witness ==
    /\ out_power # NoValue
    /\ in_start = U64(0)
    /\ in_end = U32Of(65535, 65535)
    /\ in_unit = 0
    /\ in_interval = 1
    /\ out_power[U64Len] = 59
    /\ out_power = Extend(WidePower, U64Len)

\* C29 witness of the wrap-around branch: end = 0 after start = 1, the
\* largest wrapped difference, 2^32 - 2
C29_WitnessWrap ==
    /\ out_power # NoValue
    /\ in_start = U64(1)
    /\ in_end = U64(0)
    /\ in_unit = 0
    /\ in_interval = 1
    /\ WideDifference = Wide(U32Of(65535, 65534))
    /\ out_power[U64Len] = 59

-----------------------------------------------------------------------------
(* The PowerReading of calculate_averages: claim C30, on SpecAverages *)

\* calculate_averages has returned and update_readings was not called since
Averaged == wpc = "update" /\ (calls > 0 \/ reading # NoReading)

\* C30: the PowerReading of calculate_averages has an entry for exactly the
\* physical cores of the topology, whatever the core power maps passed to
\* update_readings held, each with the core type of the topology; a core
\* whose window is empty has the average 0.0, as has the package when its
\* window is empty, and a window with readings has an average above 0.0
C30_ReadingCoversTopology ==
    Averaged =>
        /\ DOMAIN reading.cores = DOMAIN topology.core_to_threads
        /\ ForeignCoreId \notin DOMAIN reading.cores
        /\ \A c \in DOMAIN topology.core_to_threads :
              /\ reading.cores[c].core_type = topology.core_to_threads[c].core_type
              /\ core_power_readings[c] = <<>> <=> reading.cores[c].power = ZeroF64
        /\ power_readings = <<>> <=> reading.package = ZeroF64

\* C30 witness: after two update_readings calls that had a power for core 0
\* and for a core id the topology does not have, and none for core 1, the
\* reading has P-core 0 with its average and E-core 1 with 0.0
C30_Witness ==
    /\ Averaged
    /\ calls = 2
    /\ Len(core_power_readings[0]) = 2
    /\ core_power_readings[1] = <<>>
    /\ reading.cores[0].core_type = "PCore"
    /\ reading.cores[0].power # ZeroF64
    /\ reading.cores[1] = [power |-> ZeroF64, core_type |-> "ECore"]
    /\ reading.package # ZeroF64

\* C30 witness of the empty package window: calculate_averages before any
\* update_readings call
C30_WitnessEmpty ==
    /\ Averaged
    /\ calls = 0
    /\ power_readings = <<>>
    /\ reading.package = ZeroF64
    /\ DOMAIN reading.cores = {0, 1}

\* the cores of the topology of a type
CoresWith(core_type) ==
    {c \in DOMAIN topology.core_to_threads :
        topology.core_to_threads[c].core_type = core_type}

\* the baseline the contract applies to a core type: the performance one
\* for P-cores and for cores of unknown type, the efficiency one for E-cores
ApplicableBaseline(core_type) ==
    IF core_type = "ECore" THEN intel_mapper.ecore_idle_power
    ELSE intel_mapper.pcore_idle_power

\* what the cores of a type add to the idle package power
Contribution(core_type) ==
    IF ApplicableBaseline(core_type) = NoValue THEN U64(0)
    ELSE MulSmall(ApplicableBaseline(core_type), Cardinality(CoresWith(core_type)))

\* C22: after a successful calibration the idle package power is the sum
\* over the physical cores of the applicable baseline of the core's type,
\* cores of unknown type using the performance baseline; a core whose
\* applicable baseline was not measured adds nothing and has no stored
\* per-core idle value
C22_IdlePackagePowerIsSum ==
    calibration = "ok" =>
        /\ intel_mapper.idle_pkg_power =
              Add(Add(Contribution("PCore"), Contribution("ECore")), Contribution("Unknown"))
        /\ DOMAIN intel_mapper.idle_core_power =
              {c \in DOMAIN topology.core_to_threads :
                  ApplicableBaseline(topology.core_to_threads[c].core_type) # NoValue}
        /\ \A c \in DOMAIN intel_mapper.idle_core_power :
              intel_mapper.idle_core_power[c] =
                  ApplicableBaseline(topology.core_to_threads[c].core_type)

\* C22 witness: a calibration succeeded on a machine with an E-core and a
\* core of unknown type: no performance baseline was measured, and the idle
\* package power is the efficiency baseline of the one E-core
C22_Witness ==
    /\ calibration = "ok"
    /\ CoresWith("PCore") = {}
    /\ CoresWith("Unknown") # {}
    /\ intel_mapper.pcore_idle_power = NoValue
    /\ intel_mapper.ecore_idle_power # NoValue
    /\ intel_mapper.idle_pkg_power = intel_mapper.ecore_idle_power
    /\ ~IsZero(intel_mapper.idle_pkg_power)

\* C21: the worker runs no batch of the nop sequence before the calibrating
\* context has sent the start signal
C21_NoBatchBeforeSignal == cal_call # NoCall => ~cal_call.early

-----------------------------------------------------------------------------
(* Claim about detect_core_type, on SpecDetect *)

\* the capital of a letter of the four words
CapitalOf(ch) ==
    CASE ch = "p" -> "P" [] ch = "e" -> "E" [] ch = "r" -> "R"
      [] ch = "f" -> "F" [] ch = "o" -> "O" [] ch = "m" -> "M"
      [] ch = "a" -> "A" [] ch = "n" -> "N" [] ch = "c" -> "C"
      [] ch = "i" -> "I" [] ch = "y" -> "Y"
      [] OTHER -> ch

\* the text, read without regard to case, has the word at some position
Mentions(text, word) ==
    \E i \in 1..Len(text) :
        /\ i + Len(word) - 1 <= Len(text)
        /\ \A k \in 1..Len(word) :
              text[i + k - 1] \in {word[k], CapitalOf(word[k])}

\* bit 24 of a register value: the lowest bit of its fourth byte
Bit24Of(value) == value[4] % 2

\* the core type the contract gives logical CPU cpu_id of machine h
ContractCoreType(h, cpu_id) ==
    LET msr == h.msr_core_type[cpu_id]
        attr == h.core_type_attr[cpu_id]
    IN IF "GenuineIntel" \notin h.cpuinfo THEN "Unknown"
       ELSE IF msr.ok THEN (IF Bit24Of(msr.value) = 0 THEN "PCore" ELSE "ECore")
       ELSE IF ~attr.ok THEN "Unknown"
       ELSE IF Mentions(attr.text, KwPerformance) \/ Mentions(attr.text, KwPCore)
       THEN "PCore"
       ELSE IF Mentions(attr.text, KwEfficiency) \/ Mentions(attr.text, KwECore)
       THEN "ECore"
       ELSE "Unknown"

\* C20: detect_core_type always returns a core type: Unknown when the vendor
\* is not Intel; on Intel PCore or ECore by bit 24 of a readable register;
\* with the register unreadable PCore when the lower-cased attribute has
\* "performance" or "p-core", else ECore when it has "efficiency" or
\* "e-core", else Unknown, as when the attribute is unreadable. The type
\* CpuTopology::new stores for each logical CPU is that result
C20_DetectCoreType ==
    /\ \A cpu_id \in CpuIds :
          /\ DetectOn(hw, cpu_id) \in CoreTypes
          /\ DetectOn(hw, cpu_id) = ContractCoreType(hw, cpu_id)
    /\ topo_status = "built" =>
          \A cpu_id \in DOMAIN topology.thread_to_core :
              topology.thread_to_core[cpu_id].core_type = ContractCoreType(hw, cpu_id)

\* C20 witness: a topology built on an Intel machine whose registers are
\* unreadable, with types taken from a capitalised attribute, from an
\* attribute with both kinds of word and from an attribute with neither
C20_Witness ==
    /\ topo_status = "built"
    /\ "GenuineIntel" \in hw.cpuinfo
    /\ \A cpu_id \in CpuIds : ~hw.msr_core_type[cpu_id].ok
    /\ hw.core_type_attr[0] = [ok |-> TRUE, text |-> <<"E", "f", "f", "i", "c", "i", "e", "n", "c", "y">>]
    /\ hw.core_type_attr[1] = [ok |-> TRUE, text |-> <<"e", "-", "c", "o", "r", "e", " ", "p", "-", "c", "o", "r", "e">>]
    /\ hw.core_type_attr[2] = [ok |-> TRUE, text |-> <<"a", "t", "o", "m">>]
    /\ topology.thread_to_core[0].core_type = "ECore"
    /\ topology.thread_to_core[1].core_type = "PCore"
    /\ topology.thread_to_core[2].core_type = "Unknown"

====
